---- MODULE Spec2Model ----
(***************************************************************************)
(* Model of extract_highlight (src/highlight_extractor.py): the pipeline   *)
(* open clip -> clamp duration -> audio analysis -> frame decoding ->      *)
(* score building -> window selection -> clip writing.                     *)
(*                                                                         *)
(* A duration [num, den] stands for the double nearest num / den seconds.  *)
(* The conversions int(d * fps) and int(ms / 1000 * fps) are computed in   *)
(* IEEE 754 double arithmetic, rounding after the division and after the   *)
(* product, as the source computes them.                                   *)
(* A grayscale frame is one pixel intensity, so np.sum(cv2.absdiff(a, b))  *)
(* is |a - b|.                                                             *)
(*                                                                         *)
(* Further specifications model other functions of the repository, each    *)
(* with its own variables and the rest of the state idle:                  *)
(*   SpecRepeated  remove_repeated_files (src/sceneoptimizer.py)           *)
(*   SpecSubtitle  show_subtitle and process_subtitles (src/subtitle.py)   *)
(***************************************************************************)
EXTENDS Integers, Sequences, FiniteSets

VARIABLES
    pc,                      \* position in extract_highlight
    requested,               \* the highlight_duration argument as passed in
    video_duration,          \* video.duration
    video_fps,               \* video.fps
    video,                   \* the clip: "none" | "missing" | "unreadable" | "open" | "closed"
    highlight_duration,      \* the local highlight_duration
    warnings,                \* st.warning calls so far, in order
    audio_file,              \* the temporary WAV: "none" | "exists" | "removed"
    nonsilent_ranges,        \* detect_nonsilent result, (start_ms, end_ms) pairs
    fps,
    total_frames,
    nonsilent_ranges_frames,
    cap,                     \* the cv2.VideoCapture: "none" | "unopened" | "open" | "released"
    frames,                  \* the gray frames decoded so far
    prev_frame,
    frame_diffs,
    frame_scores,
    highlight_frames,
    start_frame,
    end_frame,
    output_file,             \* highlight.mp4 written by this call
    result,                  \* "none" | "returned" | the exception raised
    returned_value,          \* the components of the value returned to the caller
    \* remove_repeated_files (src/sceneoptimizer.py)
    rr_pc,                   \* "idle" | "loop" | "returned"
    video_paths,             \* the argument: one record per path, in order
    rr_index,                \* paths the for loop has gone through
    filtered_paths,          \* positions (from 1) of the paths kept, in order
    previous_duration,
    rr_warnings,             \* positions of the paths st.warning was called for
    \* show_subtitle and process_subtitles (src/subtitle.py)
    sub_pc,                  \* position in one run of the screen script
    uploaded_file,           \* [format, size, type] of the upload, NoUpload if none
    messages,                \* st.warning / st.error / st.success calls, in order
    tfile,                   \* temporary input copy: "none" | "exists" | "removed"
    button_offered,          \* the 'Generate Subtitles' button was rendered
    source_language,
    process_button,          \* the button was clicked
    temp_files,              \* which of temp/{audio, srt, output} exist
    \* show_sceneoptimizer and process_video (src/sceneoptimizer.py)
    sc_pc,                   \* position in the screen script
    sc_run,                  \* 'Process Videos' clicks so far
    scenes,                  \* detect_scenes result, one record per scene
    sc_index,                \* scenes the for loop has gone through
    processed_clips,         \* positions (from 1) of the scenes kept
    processed_video,         \* the run that wrote processed_video.mp4, 0 if absent
    sc_messages,             \* st.error / st.success calls of this run
    sc_displayed,            \* the run whose output st.video shows, None if none
    sc_error,                \* the exception that left the try block, "none" if none
    temp_wavs,               \* the temp_scene_<i>.wav files on disk: [scene, silent] records
    \* generate_highlight_reel (src/emotion.py)
    reel_pc,                 \* position in generate_highlight_reel
    clip_duration,           \* clip.duration, in quarter seconds
    clip_fps,                \* clip.fps
    key_moments,             \* the argument: [frame, match] records
    highlight_times,         \* (start, end) pairs, in quarter seconds
    merged_times,            \* highlight_times sorted and merged
    reel_index,              \* merged intervals the cutting loop has gone through
    highlight_clips,         \* (start, end) of the sub-clips cut
    reel_result,             \* "none" | "output_path" | "None"
    \* show_emotion_based_highlight_reel (src/emotion.py)
    em_pc,                   \* "idle" | "session": a browser session is open
    uploaded_videos,         \* the upload in the file_uploader, 0 if none
    session_key_moments,     \* st.session_state.key_moments, NoKey if absent
    offered_moments,         \* the key moments step 2 of the last run showed
    reel_moments,            \* the key moments the last reel was built from
    reel_video,              \* the upload the last reel was cut from, 0 if none
    em_message,              \* the last placeholder / st.write message
    \* show_trim_video (src/trim_video.py)
    trim_pc,                 \* position in one run of the screen script
    trim_upload,             \* a file is uploaded
    trim_tfile,              \* the temporary copy: "none" | "exists" | "removed"
    trim_video,              \* the clip: "none" | "open" | "closed"
    trim_duration,           \* int(duration)
    trim_start_time,         \* the start slider
    trim_end_time,           \* the end slider
    trim_button,             \* 'Trim Video' was clicked
    trimmed,                 \* video.subclip(start_time, end_time) was made
    trim_output,             \* temp_trimmed.mp4: "none" | "exists" | "removed"
    trim_message,            \* "none" | the st.success / st.error text | the exception
    \* show_video_optimizer and optimize_video (src/optimizer.py)
    opt_pc,                  \* position in one run of the screen script
    opt_upload,              \* extension of the uploaded file, "none" if no upload
    opt_temp_dir,            \* the mkdtemp directory: "none" | "exists" | "removed"
    opt_input,               \* the copy of the upload: "none" | "exists" | "removed"
    platform,                \* the selectbox value
    opt_button,              \* 'Optimize Video' was clicked
    ffmpeg,                  \* "none" | "ok" | "failed" | "missing"
    opt_output,              \* the output file exists
    opt_messages,            \* st.success / st.error calls, in order
    opt_display,             \* "none" | "tried" | "shown"
    opt_error,               \* the exception that ended the run, "none" if none
    \* process_video (src/enhance_video.py)
    enh_pc,                  \* position in process_video
    vidcap,                  \* the input capture: "none" | "unopened" | "open" | "released"
    codec_outcomes,          \* what cv2.VideoWriter does for each codec, in order
    codec_index,             \* codecs the for loop has gone through
    writers,                 \* per codec: "none" | "unopened" | "open" | "released"
    out,                     \* position of the writer out refers to, 0 for None
    enh_output_path,         \* the extension of output_path
    enh_frames,              \* frames the capture still delivers
    frame_count,             \* frames written
    enh_result,              \* "none" | "returned" | the exception raised
    \* the transition screen (src/transition.py)
    tr_pc,                   \* position in one run of the script
    apply_transition,        \* what the name apply_transition is bound to at line 85
    video_clips,             \* number of uploaded videos opened
    segment_times,           \* the parsed segments field
    transition_types,        \* the split transitions field
    clips,                   \* the sub-clips cut, one [segment, effect] record per segment
    final_clips,             \* the list handed to the final concatenation
    final_video,             \* final_video.mp4 was written
    tr_messages,             \* st.success / st.error / st.warning calls, in order
    tr_temp_dir,             \* the mkdtemp directory: "none" | "exists" | "removed"
    \* the frame conversion of line 44 (src/highlight_extractor.py)
    conv_pc,                 \* "idle" | "bound" | "converted"
    conv_ms,                 \* an interval bound in milliseconds
    conv_fps,                \* fps
    conv_frame               \* the frame index computed, None before

highlight_vars == <<pc, requested, video_duration, video_fps, video, highlight_duration,
          warnings, audio_file, nonsilent_ranges, fps, total_frames,
          nonsilent_ranges_frames, cap, frames, prev_frame, frame_diffs,
          frame_scores, highlight_frames, start_frame, end_frame, output_file,
          result, returned_value>>

repeated_vars == <<rr_pc, video_paths, rr_index, filtered_paths, previous_duration,
                   rr_warnings>>

subtitle_vars == <<sub_pc, uploaded_file, messages, tfile, button_offered,
                   source_language, process_button, temp_files>>

scene_vars == <<sc_pc, sc_run, scenes, sc_index, processed_clips, processed_video,
    sc_messages, sc_displayed, sc_error, temp_wavs>>

reel_vars == <<reel_pc, clip_duration, clip_fps, key_moments, highlight_times,
    merged_times, reel_index, highlight_clips, reel_result>>

emotion_vars == <<em_pc, uploaded_videos, session_key_moments, offered_moments,
    reel_moments, reel_video, em_message>>

trim_vars == <<trim_pc, trim_upload, trim_tfile, trim_video, trim_duration,
    trim_start_time, trim_end_time, trim_button, trimmed, trim_output, trim_message>>

optimizer_vars == <<opt_pc, opt_upload, opt_temp_dir, opt_input, platform, opt_button,
    ffmpeg, opt_output, opt_messages, opt_display, opt_error>>

enhance_vars == <<enh_pc, vidcap, codec_outcomes, codec_index, writers, out,
    enh_output_path, enh_frames, frame_count, enh_result>>

transition_vars == <<tr_pc, apply_transition, video_clips, segment_times,
    transition_types, clips, final_clips, final_video, tr_messages, tr_temp_dir>>

convert_vars == <<conv_pc, conv_ms, conv_fps, conv_frame>>

\* the variables of the screens other than the three above
screen_vars == <<scene_vars, reel_vars, emotion_vars, trim_vars, optimizer_vars,
    enhance_vars, transition_vars, convert_vars>>

\* everything outside show_sceneoptimizer and process_video (src/sceneoptimizer.py)
outside_scene == <<highlight_vars, repeated_vars, subtitle_vars, reel_vars,
    emotion_vars, trim_vars, optimizer_vars, enhance_vars, transition_vars,
    convert_vars>>

\* everything outside generate_highlight_reel (src/emotion.py)
outside_reel == <<highlight_vars, repeated_vars, subtitle_vars, scene_vars,
    emotion_vars, trim_vars, optimizer_vars, enhance_vars, transition_vars,
    convert_vars>>

\* everything outside show_emotion_based_highlight_reel (src/emotion.py)
outside_emotion == <<highlight_vars, repeated_vars, subtitle_vars, scene_vars,
    reel_vars, trim_vars, optimizer_vars, enhance_vars, transition_vars, convert_vars>>

\* everything outside show_trim_video (src/trim_video.py)
outside_trim == <<highlight_vars, repeated_vars, subtitle_vars, scene_vars, reel_vars,
    emotion_vars, optimizer_vars, enhance_vars, transition_vars, convert_vars>>

\* everything outside show_video_optimizer and optimize_video (src/optimizer.py)
outside_optimizer == <<highlight_vars, repeated_vars, subtitle_vars, scene_vars,
    reel_vars, emotion_vars, trim_vars, enhance_vars, transition_vars, convert_vars>>

\* everything outside process_video (src/enhance_video.py)
outside_enhance == <<highlight_vars, repeated_vars, subtitle_vars, scene_vars,
    reel_vars, emotion_vars, trim_vars, optimizer_vars, transition_vars, convert_vars>>

\* everything outside the transition screen (src/transition.py)
outside_transition == <<highlight_vars, repeated_vars, subtitle_vars, scene_vars,
    reel_vars, emotion_vars, trim_vars, optimizer_vars, enhance_vars, convert_vars>>

\* everything outside the frame conversion of line 44 (src/highlight_extractor.py)
outside_convert == <<highlight_vars, repeated_vars, subtitle_vars, scene_vars,
    reel_vars, emotion_vars, trim_vars, optimizer_vars, enhance_vars, transition_vars>>

vars == <<highlight_vars, repeated_vars, subtitle_vars, screen_vars>>

(* ------------------------------ bounds -------------------------------- *)
MaxVideoHalves == 4      \* video.duration is 1/2 s .. MaxVideoHalves/2 s
MaxRequestedHalves == 2  \* requested duration is 1 s .. MaxRequestedHalves/2 s
MaxFpsHalves == 4        \* video.fps is 1 .. MaxFpsHalves/2
MaxMsSteps == 3          \* interval bounds are 0 .. MaxMsSteps * 500 ms
MaxRanges == 2           \* non-silent intervals returned by the detector
MaxDecoded == 3          \* frames the capture delivers
MaxPix == 1              \* pixel intensities 0 .. MaxPix
MaxFiles == 3            \* paths passed to remove_repeated_files
MaxFileDuration == 5     \* clip durations are 0 .. MaxFileDuration seconds
MaxUploadSize == 3       \* upload sizes are 0 .. MaxUploadSize units of 100 MB

MinDuration == 4         \* min_duration = 4.0
LargeFileLimit == 2      \* 200 * 1024 * 1024 bytes, in units of 100 MB

None == -1               \* Python None / not yet assigned

(* ------------------------------ helpers ------------------------------- *)
Rat(n, d) == [num |-> n, den |-> d]

Min(a, b) == IF a < b THEN a ELSE b

Abs(x) == IF x < 0 THEN -x ELSE x

RECURSIVE SeqSum(_)
SeqSum(s) == IF s = <<>> THEN 0 ELSE Head(s) + SeqSum(Tail(s))

\* s[i:j] for 0 <= i, 0 <= j (Python slice, clipped to the sequence)
Slice(s, i, j) == SubSeq(s, i + 1, Min(j, Len(s)))

\* the comparison <= in place of <
ExceedsOrEquals(vd, hd) == vd.num * hd.den <= hd.num * vd.den

\* video.duration < highlight_duration
ExceedsDuration(vd, hd) == vd.num * hd.den < hd.num * vd.den

\* int(video.fps)
IntFps(vf) == vf.num \div vf.den

(* ---- IEEE 754 double arithmetic of int(d * fps), int(ms / 1000 * fps) ---- *)
\* A natural number of any size is the sequence of its digits in base Limb,
\* lowest first; a double is [sig, exp] with value sig * 2^exp, sig of at
\* most Mantissa binary digits (one more when rounding carried into 2^53).
Mantissa == 53
Limb == 32768

RECURSIVE Pow2(_)
Pow2(n) == IF n = 0 THEN 1 ELSE 2 * Pow2(n - 1)

RECURSIVE BitLen(_)
BitLen(n) == IF n = 0 THEN 0 ELSE 1 + BitLen(n \div 2)

\* binary digits of one digit in base Limb
LimbBits == BitLen(Limb) - 1

RECURSIVE Limbs(_)
Limbs(n) == IF n = 0 THEN <<>> ELSE <<n % Limb>> \o Limbs(n \div Limb)

RECURSIVE ToInt(_)
ToInt(a) == IF a = <<>> THEN 0 ELSE a[1] + Limb * ToInt(Tail(a))

RECURSIVE BigBitLen(_)
BigBitLen(a) ==
    IF a = <<>> THEN 0
    ELSE IF a[Len(a)] = 0 THEN BigBitLen(SubSeq(a, 1, Len(a) - 1))
    ELSE LimbBits * (Len(a) - 1) + BitLen(a[Len(a)])

\* a * m + carry, m < Limb
RECURSIVE MulSmall(_, _, _)
MulSmall(a, m, carry) ==
    IF a = <<>> THEN Limbs(carry)
    ELSE <<(a[1] * m + carry) % Limb>>
             \o MulSmall(Tail(a), m, (a[1] * m + carry) \div Limb)

\* quotient and remainder of a by m, m < Limb
RECURSIVE DivSmall(_, _)
DivSmall(a, m) ==
    IF a = <<>> THEN [quo |-> <<>>, rem |-> 0]
    ELSE LET hi == DivSmall(Tail(a), m)
         IN  [quo |-> <<(hi.rem * Limb + a[1]) \div m>> \o hi.quo,
              rem |-> (hi.rem * Limb + a[1]) % m]

\* a * 2^k
RECURSIVE ShiftLeft(_, _)
ShiftLeft(a, k) ==
    IF k = 0 THEN a
    ELSE IF k >= LimbBits THEN <<0>> \o ShiftLeft(a, k - LimbBits)
    ELSE MulSmall(a, Pow2(k), 0)

\* a \div 2^k, and whether digits other than 0 were dropped
RECURSIVE ShiftRight(_, _)
ShiftRight(a, k) ==
    IF k = 0 \/ a = <<>> THEN [quo |-> a, inexact |-> FALSE]
    ELSE IF k >= LimbBits
         THEN LET r == ShiftRight(Tail(a), k - LimbBits)
              IN  [quo |-> r.quo, inexact |-> r.inexact \/ a[1] # 0]
    ELSE [quo |-> DivSmall(a, Pow2(k)).quo, inexact |-> DivSmall(a, Pow2(k)).rem # 0]

\* round to nearest, ties to even: n * 2^exp, plus something below the last
\* digit of n when sticky, as a double
RoundNearestEven(n, exp, sticky) ==
    LET k == BigBitLen(n) - Mantissa
    IN  IF k <= 0 THEN [sig |-> n, exp |-> exp]
        ELSE LET upper == ShiftRight(n, k - 1)
                 half == DivSmall(upper.quo, 2)
                 up == half.rem = 1
                       /\ (upper.inexact \/ sticky \/ DivSmall(half.quo, 2).rem = 1)
             IN  [sig |-> IF up THEN MulSmall(half.quo, 1, 1) ELSE half.quo,
                  exp |-> exp + k]

\* q without its factors 2
RECURSIVE OddPart(_)
OddPart(q) == IF q % 2 = 0 THEN OddPart(q \div 2) ELSE q

\* the double p / q, 0 < p, 0 < q < Limb: the quotient itself when it is a
\* binary fraction, otherwise the nearest double
Divide(p, q) ==
    IF p % OddPart(q) = 0
    THEN [sig |-> Limbs(p \div OddPart(q)), exp |-> 1 - BitLen(q \div OddPart(q))]
    ELSE LET s == Mantissa + 2 + BitLen(q) - BitLen(p)
             d == DivSmall(ShiftLeft(Limbs(p), s), q)
         IN  RoundNearestEven(d.quo, -s, d.rem # 0)

\* the double x * f, 0 < f < Limb
Times(x, f) == RoundNearestEven(MulSmall(x.sig, f, 0), x.exp, FALSE)

\* int(x), x >= 0
Truncate(x) ==
    IF x.exp >= 0 THEN ToInt(ShiftLeft(x.sig, x.exp))
    ELSE ToInt(ShiftRight(x.sig, -x.exp).quo)

\* int(p / q * f)
IntOfProduct(p, q, f) == IF p = 0 \/ f = 0 THEN 0 ELSE Truncate(Times(Divide(p, q), f))

\* rounding up in place of int()
ToFramesCeil(d, f) == (d.num * f + d.den - 1) \div d.den

\* int(d * fps), d the double nearest d.num / d.den
ToFrames(d, f) == IntOfProduct(d.num, d.den, f)

\* round(x), x >= 0: to the nearest integer, ties to the even one
Nearest(x) ==
    IF x.exp >= 0 THEN ToInt(ShiftLeft(x.sig, x.exp))
    ELSE LET upper == ShiftRight(x.sig, -x.exp - 1)
             half == DivSmall(upper.quo, 2)
             up == half.rem = 1 /\ (upper.inexact \/ DivSmall(half.quo, 2).rem = 1)
         IN  ToInt(half.quo) + (IF up THEN 1 ELSE 0)

\* round(ms / 1000 * fps)
MsToFrameRound(ms, f) == IF ms = 0 THEN 0 ELSE Nearest(Times(Divide(ms, 1000), f))

\* int(ms / 1000 * fps)
MsToFrame(ms, f) == IntOfProduct(ms, 1000, f)

\* [(int(start / 1000 * fps), int(end / 1000 * fps)) for start, end in nonsilent_ranges]
RangesToFrames(rs, f) ==
    [k \in 1..Len(rs) |-> <<MsToFrame(rs[k][1], f), MsToFrame(rs[k][2], f)>>]

\* the silence check left out
NeverSilent(rs) == FALSE

\* if not nonsilent_ranges
NoAudioActivity(rs) == rs = <<>>

\* the isOpened check left out
AlwaysOpened(c) == FALSE

\* if not cap.isOpened()
CaptureUnavailable(c) == c # "open"

\* the empty-signal check left out
AlwaysChanges(diffs) == FALSE

\* if not frame_diffs
NoSceneChanges(diffs) == diffs = <<>>

\* a signed difference in place of the absolute one
SignedDiff(g, p) == g - p

\* np.sum(cv2.absdiff(gray_frame, prev_frame))
FrameDiff(g, p) == Abs(g - p)

\* np.zeros(total_frames)
Zeros(n) == [i \in 1..n |-> 0]

\* frame_scores[start:end] = 1: a boolean indicator instead of a count
AddRangeOverwrite(scores, r) ==
    [i \in 1..Len(scores) |->
        IF r[1] <= i - 1 /\ i - 1 < r[2] THEN 1 ELSE scores[i]]

\* a range reaching past the end grows the array instead of being clipped
AddRangeExtending(scores, r) ==
    [i \in 1..(IF r[2] > Len(scores) THEN r[2] ELSE Len(scores)) |->
        (IF i <= Len(scores) THEN scores[i] ELSE 0)
            + (IF r[1] <= i - 1 /\ i - 1 < r[2] THEN 1 ELSE 0)]

\* frame_scores[start:end] += 1
AddRange(scores, r) ==
    [i \in 1..Len(scores) |->
        IF r[1] <= i - 1 /\ i - 1 < r[2] THEN scores[i] + 1 ELSE scores[i]]

RECURSIVE AddRanges(_, _)
AddRanges(scores, rs) ==
    IF rs = <<>> THEN scores ELSE AddRanges(AddRange(scores, Head(rs)), Tail(rs))

\* for i, diff in enumerate(frame_diffs): if i < len(frame_scores): frame_scores[i] += diff
AddDiffs(scores, diffs) ==
    [i \in 1..Len(scores) |->
        IF i <= Len(diffs) THEN scores[i] + diffs[i] ELSE scores[i]]

BuildScores(n, rs, diffs) == AddDiffs(AddRanges(Zeros(n), rs), diffs)

\* np.sum(frame_scores[i:i + highlight_frames])
WindowSum(scores, i, L) == SeqSum(Slice(scores, i, i + L))

\* range(len(frame_scores) - highlight_frames)
Candidates(n, L) == 0..(n - L - 1)

\* [np.sum(frame_scores[i:i + L]) for i in range(len(frame_scores) - L)]
WindowSums(scores, L) ==
    [k \in 1..Cardinality(Candidates(Len(scores), L)) |-> WindowSum(scores, k - 1, L)]

\* the last index holding the maximum
ArgMaxLast(s) ==
    CHOOSE i \in 0..(Len(s) - 1) :
        /\ \A j \in 0..(Len(s) - 1) : s[j + 1] <= s[i + 1]
        /\ \A j \in (i + 1)..(Len(s) - 1) : s[j + 1] < s[i + 1]

\* np.max in place of np.argmax: the maximum itself
MaxValue(s) == CHOOSE v \in {s[k] : k \in 1..Len(s)} : \A k \in 1..Len(s) : s[k] <= v

\* np.argmax of a non-empty list: the first index holding the maximum
ArgMax(s) ==
    CHOOSE i \in 0..(Len(s) - 1) :
        /\ \A j \in 0..(Len(s) - 1) : s[j + 1] <= s[i + 1]
        /\ \A j \in 0..(i - 1) : s[j + 1] < s[i + 1]

EndFrame(s, L) == s + L

\* the duration used returned next to the path
ReturnedWithDuration(output_path, duration) == <<output_path, duration>>

\* return output_path
ReturnedValue(output_path, duration) == <<output_path>>

(* ------------------------------ inputs -------------------------------- *)
VideoDurations == {Rat(n, 2) : n \in 1..MaxVideoHalves}
RequestedDurations == {Rat(n, 2) : n \in 2..MaxRequestedHalves}
VideoFpsValues == {Rat(n, 2) : n \in 2..MaxFpsHalves}
MsValues == {500 * k : k \in 0..MaxMsSteps}
MsRanges == {r \in MsValues \X MsValues : r[1] < r[2]}
\* detect_nonsilent returns its intervals in ascending order; the score builder
\* is applied to every ascending list, overlapping and repeated intervals included
RangeLists ==
    {rs \in UNION {[1..n -> MsRanges] : n \in 0..MaxRanges} :
        \A k \in 1..(Len(rs) - 1) :
            \/ rs[k][1] < rs[k + 1][1]
            \/ (rs[k][1] = rs[k + 1][1] /\ rs[k][2] <= rs[k + 1][2])}

(* ------------------------------- state -------------------------------- *)
\* remove_repeated_files is not running
RepeatedIdle ==
    /\ rr_pc = "idle"
    /\ video_paths = <<>>
    /\ rr_index = 0
    /\ filtered_paths = <<>>
    /\ previous_duration = None
    /\ rr_warnings = <<>>

\* extract_highlight at its entry, or not running
HighlightAt(start) ==
    /\ pc = start
    /\ requested \in RequestedDurations
    /\ video_duration \in VideoDurations
    /\ video_fps \in VideoFpsValues
    /\ video = "none"
    /\ highlight_duration = requested
    /\ warnings = <<>>
    /\ audio_file = "none"
    /\ nonsilent_ranges = <<>>
    /\ fps = None
    /\ total_frames = None
    /\ nonsilent_ranges_frames = <<>>
    /\ cap = "none"
    /\ frames = <<>>
    /\ prev_frame = None
    /\ frame_diffs = <<>>
    /\ frame_scores = <<>>
    /\ highlight_frames = None
    /\ start_frame = None
    /\ end_frame = None
    /\ output_file = FALSE
    /\ result = "none"
    /\ returned_value = <<>>

HighlightIdle ==
    /\ HighlightAt("idle")
    /\ requested = Rat(2, 2)
    /\ video_duration = Rat(1, 2)
    /\ video_fps = Rat(2, 2)

\* no upload in the file_uploader widget
NoUpload == [format |-> "none", size |-> 0, type |-> ""]

\* show_subtitle is not running
SubtitleIdle ==
    /\ sub_pc = "idle"
    /\ uploaded_file = NoUpload
    /\ messages = <<>>
    /\ tfile = "none"
    /\ button_offered = FALSE
    /\ source_language = "hi"
    /\ process_button = FALSE
    /\ temp_files = {}

\* "key_moments" not in st.session_state
NoKey == [upload |-> 0, found |-> FALSE]

\* the other screens are not running
SceneIdle ==
    /\ sc_pc = "idle"
    /\ sc_run = 0
    /\ scenes = <<>>
    /\ sc_index = 0
    /\ processed_clips = <<>>
    /\ processed_video = 0
    /\ sc_messages = <<>>
    /\ sc_displayed = None
    /\ sc_error = "none"
    /\ temp_wavs = {}

ReelIdle ==
    /\ reel_pc = "idle"
    /\ clip_duration = 0
    /\ clip_fps = 1
    /\ key_moments = <<>>
    /\ highlight_times = <<>>
    /\ merged_times = <<>>
    /\ reel_index = 0
    /\ highlight_clips = <<>>
    /\ reel_result = "none"

EmotionIdle ==
    /\ em_pc = "idle"
    /\ uploaded_videos = 0
    /\ session_key_moments = NoKey
    /\ offered_moments = NoKey
    /\ reel_moments = NoKey
    /\ reel_video = 0
    /\ em_message = "none"

TrimIdle ==
    /\ trim_pc = "idle"
    /\ trim_upload = FALSE
    /\ trim_tfile = "none"
    /\ trim_video = "none"
    /\ trim_duration = 0
    /\ trim_start_time = 0
    /\ trim_end_time = 0
    /\ trim_button = FALSE
    /\ trimmed = FALSE
    /\ trim_output = "none"
    /\ trim_message = "none"

OptimizerIdle ==
    /\ opt_pc = "idle"
    /\ opt_upload = "none"
    /\ opt_temp_dir = "none"
    /\ opt_input = "none"
    /\ platform = "YouTube"
    /\ opt_button = FALSE
    /\ ffmpeg = "none"
    /\ opt_output = FALSE
    /\ opt_messages = <<>>
    /\ opt_display = "none"
    /\ opt_error = "none"

EnhanceIdle ==
    /\ enh_pc = "idle"
    /\ vidcap = "none"
    /\ codec_outcomes = <<>>
    /\ codec_index = 0
    /\ writers = <<>>
    /\ out = 0
    /\ enh_output_path = ".mp4"
    /\ enh_frames = 0
    /\ frame_count = 0
    /\ enh_result = "none"

TransitionIdle ==
    /\ tr_pc = "idle"
    /\ apply_transition = "unbound"
    /\ video_clips = 0
    /\ segment_times = <<>>
    /\ transition_types = <<>>
    /\ clips = <<>>
    /\ final_clips = <<>>
    /\ final_video = FALSE
    /\ tr_messages = <<>>
    /\ tr_temp_dir = "none"

ConvertIdle ==
    /\ conv_pc = "idle"
    /\ conv_ms = 0
    /\ conv_fps = 1
    /\ conv_frame = None

ScreensIdle ==
    /\ SceneIdle
    /\ ReelIdle
    /\ EmotionIdle
    /\ TrimIdle
    /\ OptimizerIdle
    /\ EnhanceIdle
    /\ TransitionIdle
    /\ ConvertIdle

\* every screen but show_sceneoptimizer and process_video (src/sceneoptimizer.py) is idle
IdleOutsideScene ==
    /\ HighlightIdle
    /\ RepeatedIdle
    /\ SubtitleIdle
    /\ ReelIdle
    /\ EmotionIdle
    /\ TrimIdle
    /\ OptimizerIdle
    /\ EnhanceIdle
    /\ TransitionIdle
    /\ ConvertIdle

\* every screen but generate_highlight_reel (src/emotion.py) is idle
IdleOutsideReel ==
    /\ HighlightIdle
    /\ RepeatedIdle
    /\ SubtitleIdle
    /\ SceneIdle
    /\ EmotionIdle
    /\ TrimIdle
    /\ OptimizerIdle
    /\ EnhanceIdle
    /\ TransitionIdle
    /\ ConvertIdle

\* every screen but show_emotion_based_highlight_reel (src/emotion.py) is idle
IdleOutsideEmotion ==
    /\ HighlightIdle
    /\ RepeatedIdle
    /\ SubtitleIdle
    /\ SceneIdle
    /\ ReelIdle
    /\ TrimIdle
    /\ OptimizerIdle
    /\ EnhanceIdle
    /\ TransitionIdle
    /\ ConvertIdle

\* every screen but show_trim_video (src/trim_video.py) is idle
IdleOutsideTrim ==
    /\ HighlightIdle
    /\ RepeatedIdle
    /\ SubtitleIdle
    /\ SceneIdle
    /\ ReelIdle
    /\ EmotionIdle
    /\ OptimizerIdle
    /\ EnhanceIdle
    /\ TransitionIdle
    /\ ConvertIdle

\* every screen but show_video_optimizer and optimize_video (src/optimizer.py) is idle
IdleOutsideOptimizer ==
    /\ HighlightIdle
    /\ RepeatedIdle
    /\ SubtitleIdle
    /\ SceneIdle
    /\ ReelIdle
    /\ EmotionIdle
    /\ TrimIdle
    /\ EnhanceIdle
    /\ TransitionIdle
    /\ ConvertIdle

\* every screen but process_video (src/enhance_video.py) is idle
IdleOutsideEnhance ==
    /\ HighlightIdle
    /\ RepeatedIdle
    /\ SubtitleIdle
    /\ SceneIdle
    /\ ReelIdle
    /\ EmotionIdle
    /\ TrimIdle
    /\ OptimizerIdle
    /\ TransitionIdle
    /\ ConvertIdle

\* every screen but the transition screen (src/transition.py) is idle
IdleOutsideTransition ==
    /\ HighlightIdle
    /\ RepeatedIdle
    /\ SubtitleIdle
    /\ SceneIdle
    /\ ReelIdle
    /\ EmotionIdle
    /\ TrimIdle
    /\ OptimizerIdle
    /\ EnhanceIdle
    /\ ConvertIdle

\* every screen but the frame conversion of line 44 (src/highlight_extractor.py) is idle
IdleOutsideConvert ==
    /\ HighlightIdle
    /\ RepeatedIdle
    /\ SubtitleIdle
    /\ SceneIdle
    /\ ReelIdle
    /\ EmotionIdle
    /\ TrimIdle
    /\ OptimizerIdle
    /\ EnhanceIdle
    /\ TransitionIdle

Init == HighlightAt("open") /\ RepeatedIdle /\ SubtitleIdle /\ ScreensIdle

\* raise: the call ends with exception e
Raise(e) == pc' = "done" /\ result' = e

\* lines 15-21
OpenVideo ==
    /\ pc = "open"
    /\ \E isfile \in BOOLEAN, opens \in BOOLEAN :
        IF ~isfile THEN
            /\ video' = "missing"
            /\ Raise("FileNotFoundError")
        ELSE IF ~opens THEN
            /\ video' = "unreadable"
            /\ Raise("ValueError: Could not process video file")
        ELSE
            /\ video' = "open"
            /\ pc' = "clamp"
            /\ UNCHANGED result
    /\ UNCHANGED <<requested, video_duration, video_fps, highlight_duration,
                   warnings, audio_file, nonsilent_ranges, fps, total_frames,
                   nonsilent_ranges_frames, cap, frames, prev_frame, frame_diffs,
                   frame_scores, highlight_frames, start_frame, end_frame,
                   output_file>>
    /\ UNCHANGED <<returned_value, repeated_vars, subtitle_vars, screen_vars>>

\* lines 23-27
ClampDuration ==
    /\ pc = "clamp"
    /\ IF ExceedsDuration(video_duration, highlight_duration) THEN
            /\ warnings' = warnings \o <<"exceeds video duration", "adjusted">>
            /\ highlight_duration' = video_duration
       ELSE UNCHANGED <<warnings, highlight_duration>>
    /\ pc' = "audio"
    /\ UNCHANGED <<requested, video_duration, video_fps, video, audio_file,
                   nonsilent_ranges, fps, total_frames, nonsilent_ranges_frames,
                   cap, frames, prev_frame, frame_diffs, frame_scores,
                   highlight_frames, start_frame, end_frame, output_file, result>>
    /\ UNCHANGED <<returned_value, repeated_vars, subtitle_vars, screen_vars>>

\* lines 29-44
AnalyzeAudio ==
    /\ pc = "audio"
    /\ \E ok \in BOOLEAN, rs \in RangeLists :
        IF ~ok THEN
            \* write_audiofile, from_file or detect_nonsilent raised
            /\ rs = <<>>
            /\ audio_file' = "exists"
            /\ Raise("audio error")
            /\ UNCHANGED <<nonsilent_ranges, fps, total_frames, nonsilent_ranges_frames>>
        ELSE IF NoAudioActivity(rs) THEN
            /\ audio_file' = "removed"
            /\ Raise("ValueError: No significant audio activity")
            /\ UNCHANGED <<nonsilent_ranges, fps, total_frames, nonsilent_ranges_frames>>
        ELSE
            /\ audio_file' = "exists"
            /\ nonsilent_ranges' = rs
            /\ fps' = IntFps(video_fps)
            /\ total_frames' = ToFrames(video_duration, IntFps(video_fps))
            /\ nonsilent_ranges_frames' = RangesToFrames(rs, IntFps(video_fps))
            /\ pc' = "cap"
            /\ UNCHANGED result
    /\ UNCHANGED <<requested, video_duration, video_fps, video, highlight_duration,
                   warnings, cap, frames, prev_frame, frame_diffs, frame_scores,
                   highlight_frames, start_frame, end_frame, output_file>>
    /\ UNCHANGED <<returned_value, repeated_vars, subtitle_vars, screen_vars>>

\* lines 47-53
OpenCapture ==
    /\ pc = "cap"
    /\ \E opened \in BOOLEAN :
        /\ cap' = IF opened THEN "open" ELSE "unopened"
        /\ IF CaptureUnavailable(cap') THEN
                /\ audio_file' = "removed"
                /\ Raise("ValueError: Unable to open video file")
           ELSE
                /\ pc' = "read"
                /\ UNCHANGED <<audio_file, result>>
    /\ UNCHANGED <<requested, video_duration, video_fps, video, highlight_duration,
                   warnings, nonsilent_ranges, fps, total_frames,
                   nonsilent_ranges_frames, frames, prev_frame, frame_diffs,
                   frame_scores, highlight_frames, start_frame, end_frame,
                   output_file>>
    /\ UNCHANGED <<returned_value, repeated_vars, subtitle_vars, screen_vars>>

\* lines 55-64, one iteration in which cap.read() delivers a frame
ReadFrame ==
    /\ pc = "read"
    /\ Len(frames) < MaxDecoded
    /\ \E gray_frame \in 0..MaxPix :
        /\ frames' = Append(frames, gray_frame)
        /\ frame_diffs' = IF prev_frame # None
                          THEN Append(frame_diffs, FrameDiff(gray_frame, prev_frame))
                          ELSE frame_diffs
        /\ prev_frame' = gray_frame
    /\ UNCHANGED <<pc, requested, video_duration, video_fps, video,
                   highlight_duration, warnings, audio_file, nonsilent_ranges, fps,
                   total_frames, nonsilent_ranges_frames, cap, frame_scores,
                   highlight_frames, start_frame, end_frame, output_file, result>>
    /\ UNCHANGED <<returned_value, repeated_vars, subtitle_vars, screen_vars>>

\* lines 56-58 with ret false, then lines 66-71
EndOfStream ==
    /\ pc = "read"
    /\ cap' = "released"
    /\ frame_diffs' = Slice(frame_diffs, 0, total_frames)
    /\ IF NoSceneChanges(frame_diffs') THEN
            /\ audio_file' = "removed"
            /\ Raise("ValueError: No significant scene changes")
       ELSE
            /\ pc' = "scores"
            /\ UNCHANGED <<audio_file, result>>
    /\ UNCHANGED <<requested, video_duration, video_fps, video, highlight_duration,
                   warnings, nonsilent_ranges, fps, total_frames,
                   nonsilent_ranges_frames, frames, prev_frame, frame_scores,
                   highlight_frames, start_frame, end_frame, output_file>>
    /\ UNCHANGED <<returned_value, repeated_vars, subtitle_vars, screen_vars>>

\* lines 73-80
CombineScores ==
    /\ pc = "scores"
    /\ frame_scores' = BuildScores(total_frames, nonsilent_ranges_frames, frame_diffs)
    /\ pc' = "adjust"
    /\ UNCHANGED <<requested, video_duration, video_fps, video, highlight_duration,
                   warnings, audio_file, nonsilent_ranges, fps, total_frames,
                   nonsilent_ranges_frames, cap, frames, prev_frame, frame_diffs,
                   highlight_frames, start_frame, end_frame, output_file, result>>
    /\ UNCHANGED <<returned_value, repeated_vars, subtitle_vars, screen_vars>>

\* lines 82-88
AdjustDuration ==
    /\ pc = "adjust"
    /\ IF Len(frame_scores) < ToFrames(highlight_duration, fps) THEN
            /\ highlight_duration' = Rat(Len(frame_scores), fps)
            /\ warnings' = Append(warnings, "adjusted")
       ELSE UNCHANGED <<highlight_duration, warnings>>
    /\ highlight_frames' = ToFrames(highlight_duration', fps)
    /\ pc' = "select"
    /\ UNCHANGED <<requested, video_duration, video_fps, video, audio_file,
                   nonsilent_ranges, fps, total_frames, nonsilent_ranges_frames,
                   cap, frames, prev_frame, frame_diffs, frame_scores, start_frame,
                   end_frame, output_file, result>>
    /\ UNCHANGED <<returned_value, repeated_vars, subtitle_vars, screen_vars>>

\* lines 89-92
SelectWindow ==
    /\ pc = "select"
    /\ IF WindowSums(frame_scores, highlight_frames) = <<>> THEN
            \* np.argmax([]) raises
            /\ Raise("ValueError: attempt to get argmax of an empty sequence")
            /\ UNCHANGED <<start_frame, end_frame>>
       ELSE
            /\ start_frame' = ArgMax(WindowSums(frame_scores, highlight_frames))
            /\ end_frame' = EndFrame(start_frame', highlight_frames)
            /\ pc' = "write"
            /\ UNCHANGED result
    /\ UNCHANGED <<requested, video_duration, video_fps, video, highlight_duration,
                   warnings, audio_file, nonsilent_ranges, fps, total_frames,
                   nonsilent_ranges_frames, cap, frames, prev_frame, frame_diffs,
                   frame_scores, highlight_frames, output_file>>
    /\ UNCHANGED <<returned_value, repeated_vars, subtitle_vars, screen_vars>>

\* lines 94-102
WriteHighlight ==
    /\ pc = "write"
    /\ \E written \in BOOLEAN :
        IF written THEN
            /\ output_file' = TRUE
            /\ result' = "returned"
            /\ returned_value' = ReturnedValue("highlight.mp4", highlight_duration)
        ELSE
            /\ result' = "write error"
            /\ UNCHANGED <<output_file, returned_value>>
    /\ audio_file' = "removed"
    /\ pc' = "done"
    /\ UNCHANGED <<requested, video_duration, video_fps, video, highlight_duration,
                   warnings, nonsilent_ranges, fps, total_frames,
                   nonsilent_ranges_frames, cap, frames, prev_frame, frame_diffs,
                   frame_scores, highlight_frames, start_frame, end_frame>>
    /\ UNCHANGED <<repeated_vars, subtitle_vars, screen_vars>>

Next ==
    \/ OpenVideo
    \/ ClampDuration
    \/ AnalyzeAudio
    \/ OpenCapture
    \/ ReadFrame
    \/ EndOfStream
    \/ CombineScores
    \/ AdjustDuration
    \/ SelectWindow
    \/ WriteHighlight

Spec == Init /\ [][Next]_vars

(* ---------------- remove_repeated_files (sceneoptimizer.py) ------------ *)
\* a path whose clip opens, with its duration, or one VideoFileClip raises on
ReadableFile(d) == [readable |-> TRUE, duration |-> d]
UnreadableFile == [readable |-> FALSE, duration |-> 0]
Files == {ReadableFile(d) : d \in 0..MaxFileDuration} \cup {UnreadableFile}
PathLists == UNION {[1..n -> Files] : n \in 0..MaxFiles}

\* previous_duration is None or abs(current_duration - previous_duration) > min_duration
IsUnique(current, previous) ==
    previous = None \/ Abs(current - previous) > MinDuration

InitRepeated ==
    /\ HighlightIdle
    /\ SubtitleIdle
    /\ ScreensIdle
    /\ rr_pc = "loop"
    /\ video_paths \in PathLists
    /\ rr_index = 0
    /\ filtered_paths = <<>>
    /\ previous_duration = None
    /\ rr_warnings = <<>>

\* lines 56-69: one iteration of the for loop
RepeatedIterate ==
    /\ rr_pc = "loop"
    /\ rr_index < Len(video_paths)
    /\ rr_index' = rr_index + 1
    /\ LET video_clip == video_paths[rr_index + 1] IN
        IF video_clip.readable THEN
            /\ filtered_paths' =
                  IF IsUnique(video_clip.duration, previous_duration)
                  THEN Append(filtered_paths, rr_index + 1)
                  ELSE filtered_paths
            /\ previous_duration' = video_clip.duration
            /\ UNCHANGED rr_warnings
        ELSE
            /\ rr_warnings' = Append(rr_warnings, rr_index + 1)
            /\ UNCHANGED <<filtered_paths, previous_duration>>
    /\ UNCHANGED <<rr_pc, video_paths>>
    /\ UNCHANGED <<highlight_vars, subtitle_vars, screen_vars>>

\* line 71
RepeatedReturn ==
    /\ rr_pc = "loop"
    /\ rr_index = Len(video_paths)
    /\ rr_pc' = "returned"
    /\ UNCHANGED <<video_paths, rr_index, filtered_paths, previous_duration,
                   rr_warnings>>
    /\ UNCHANGED <<highlight_vars, subtitle_vars, screen_vars>>

NextRepeated ==
    \/ RepeatedIterate
    \/ RepeatedReturn

SpecRepeated == InitRepeated /\ [][NextRepeated]_vars

(* -------------- show_subtitle, process_subtitles (subtitle.py) --------- *)
\* type=['mp4', 'mov', 'avi', 'mkv', 'webm'] of the uploader
ListedFormats == {"mp4", "mov", "avi", "mkv", "webm"}

\* the types the validation lets through
AcceptedType(type) ==
    type \in {"video/mp4", "video/quicktime", "video/x-msvideo", "video/webm"}

\* uploaded_file.type: the MIME type of a file with this extension
MimeType(format) ==
    CASE format = "mp4"  -> "video/mp4"
      [] format = "mov"  -> "video/quicktime"
      [] format = "avi"  -> "video/x-msvideo"
      [] format = "mkv"  -> "video/x-matroska"
      [] format = "webm" -> "video/webm"

Uploads ==
    {[format |-> f, size |-> n, type |-> MimeType(f)] :
        f \in ListedFormats, n \in 0..MaxUploadSize}

Languages == {"hi", "en", "es", "fr", "de", "it", "ja", "ko", "zh"}

LargeFileWarning == "Large file detected"
FormatError == "Please upload a supported video format"
ProcessingError == "An error occurred during processing"
Success == "Subtitles generated successfully"

InitSubtitle ==
    /\ HighlightIdle
    /\ RepeatedIdle
    /\ ScreensIdle
    /\ sub_pc = "details"
    /\ uploaded_file \in Uploads \cup {NoUpload}
    /\ messages = <<>>
    /\ tfile = "none"
    /\ button_offered = FALSE
    /\ source_language = "hi"
    /\ process_button = FALSE
    /\ temp_files = {}

\* lines 169-182: file details and the large-file warning
SubFileDetails ==
    /\ sub_pc = "details"
    /\ messages' = IF uploaded_file # NoUpload /\ uploaded_file.size > LargeFileLimit
                    THEN Append(messages, LargeFileWarning)
                    ELSE messages
    /\ sub_pc' = "validate"
    /\ UNCHANGED <<uploaded_file, tfile, button_offered, source_language,
                   process_button, temp_files>>
    /\ UNCHANGED <<highlight_vars, repeated_vars, screen_vars>>

\* lines 185-188: st.error and st.stop() for a type outside the accepted ones
SubValidate ==
    /\ sub_pc = "validate"
    /\ IF uploaded_file = NoUpload THEN
            /\ sub_pc' = "instructions"
            /\ UNCHANGED messages
       ELSE IF ~AcceptedType(uploaded_file.type) THEN
            /\ messages' = Append(messages, FormatError)
            /\ sub_pc' = "stopped"
       ELSE
            /\ sub_pc' = "save"
            /\ UNCHANGED messages
    /\ UNCHANGED <<uploaded_file, tfile, button_offered, source_language,
                   process_button, temp_files>>
    /\ UNCHANGED <<highlight_vars, repeated_vars, screen_vars>>

\* lines 292-306: no upload, the instructions are shown
SubInstructions ==
    /\ sub_pc = "instructions"
    /\ sub_pc' = "done"
    /\ UNCHANGED <<uploaded_file, messages, tfile, button_offered, source_language,
                   process_button, temp_files>>
    /\ UNCHANGED <<highlight_vars, repeated_vars, screen_vars>>

\* lines 202-206: the temporary copy of the upload
SubSaveUpload ==
    /\ sub_pc = "save"
    /\ tfile' = "exists"
    /\ sub_pc' = "options"
    /\ UNCHANGED <<uploaded_file, messages, button_offered, source_language,
                   process_button, temp_files>>
    /\ UNCHANGED <<highlight_vars, repeated_vars, screen_vars>>

\* lines 208-241: language select box and the 'Generate Subtitles' button
SubOptions ==
    /\ sub_pc = "options"
    /\ source_language' \in Languages
    /\ button_offered' = TRUE
    /\ process_button' \in BOOLEAN
    /\ sub_pc' = IF process_button' THEN "extract" ELSE "cleanup"
    /\ UNCHANGED <<uploaded_file, messages, tfile, temp_files>>
    /\ UNCHANGED <<highlight_vars, repeated_vars, screen_vars>>

\* A step of process_subtitles succeeds and leaves its file, or raises; lines
\* 59-67 then delete the three files and re-raise, and line 282 reports it.
\* lines 41-43
SubExtractAudio ==
    /\ sub_pc = "extract"
    /\ \/ /\ temp_files' = temp_files \cup {"audio"}
          /\ sub_pc' = "transcribe"
          /\ UNCHANGED messages
       \/ /\ temp_files' = {}
          /\ messages' = Append(messages, ProcessingError)
          /\ sub_pc' = "cleanup"
    /\ UNCHANGED <<uploaded_file, tfile, button_offered, source_language,
                   process_button>>
    /\ UNCHANGED <<highlight_vars, repeated_vars, screen_vars>>

\* lines 45-47
SubTranscribe ==
    /\ sub_pc = "transcribe"
    /\ \/ /\ temp_files' = temp_files
          /\ sub_pc' = "srt"
          /\ UNCHANGED messages
       \/ /\ temp_files' = {}
          /\ messages' = Append(messages, ProcessingError)
          /\ sub_pc' = "cleanup"
    /\ UNCHANGED <<uploaded_file, tfile, button_offered, source_language,
                   process_button>>
    /\ UNCHANGED <<highlight_vars, repeated_vars, screen_vars>>

\* lines 49-51
SubCreateSrt ==
    /\ sub_pc = "srt"
    /\ \/ /\ temp_files' = temp_files \cup {"srt"}
          /\ sub_pc' = "burn"
          /\ UNCHANGED messages
       \/ /\ temp_files' = {}
          /\ messages' = Append(messages, ProcessingError)
          /\ sub_pc' = "cleanup"
    /\ UNCHANGED <<uploaded_file, tfile, button_offered, source_language,
                   process_button>>
    /\ UNCHANGED <<highlight_vars, repeated_vars, screen_vars>>

\* lines 53-57
SubBurn ==
    /\ sub_pc = "burn"
    /\ \/ /\ temp_files' = temp_files \cup {"output"}
          /\ sub_pc' = "show"
          /\ UNCHANGED messages
       \/ /\ temp_files' = {}
          /\ messages' = Append(messages, ProcessingError)
          /\ sub_pc' = "cleanup"
    /\ UNCHANGED <<uploaded_file, tfile, button_offered, source_language,
                   process_button>>
    /\ UNCHANGED <<highlight_vars, repeated_vars, screen_vars>>

\* lines 246-280: success, the result and its downloads, then the output
\* video and the SRT file are unlinked
SubShowResult ==
    /\ sub_pc = "show"
    /\ messages' = Append(messages, Success)
    /\ temp_files' = temp_files \ {"output", "srt"}
    /\ sub_pc' = "cleanup"
    /\ UNCHANGED <<uploaded_file, tfile, button_offered, source_language,
                   process_button>>
    /\ UNCHANGED <<highlight_vars, repeated_vars, screen_vars>>

\* lines 285-290: the finally clause unlinks the temporary copy
SubCleanup ==
    /\ sub_pc = "cleanup"
    /\ tfile' = "removed"
    /\ sub_pc' = "done"
    /\ UNCHANGED <<uploaded_file, messages, button_offered, source_language,
                   process_button, temp_files>>
    /\ UNCHANGED <<highlight_vars, repeated_vars, screen_vars>>

NextSubtitle ==
    \/ SubFileDetails
    \/ SubValidate
    \/ SubInstructions
    \/ SubSaveUpload
    \/ SubOptions
    \/ SubExtractAudio
    \/ SubTranscribe
    \/ SubCreateSrt
    \/ SubBurn
    \/ SubShowResult
    \/ SubCleanup

SpecSubtitle == InitSubtitle /\ [][NextSubtitle]_vars

(* ------------------------- properties checked ------------------------- *)
ArgmaxError == "ValueError: attempt to get argmax of an empty sequence"

\* the clip was opened and lines 23-27 have run
PastClamp == video = "open" /\ pc # "clamp"

\* lines 73-80 have run
ScoresBuilt == pc \in {"adjust", "select", "write"} \/ (pc = "done" /\ highlight_frames # None)

\* lines 83-88 have run
LengthChosen == highlight_frames # None

\* lines 89-92 have produced a window
WindowProduced == start_frame # None

\* the valid start indices [0, N - L] of the specification
ValidStarts == 0..(Len(frame_scores) - highlight_frames)

\* the valid start indices whose window sum is maximal
BestStarts ==
    {i \in ValidStarts :
        \A j \in ValidStarts :
            WindowSum(frame_scores, j, highlight_frames)
                <= WindowSum(frame_scores, i, highlight_frames)}

\* the number of non-silent frame ranges covering frame index i
Coverage(i) ==
    Cardinality({k \in 1..Len(nonsilent_ranges_frames) :
        nonsilent_ranges_frames[k][1] <= i /\ i < nonsilent_ranges_frames[k][2]})

\* the magnitude between decoded frame i and frame i - 1 (frame indices from 0)
Magnitude(i) ==
    IF 1 <= i /\ i + 1 <= Len(frames) THEN Abs(frames[i + 1] - frames[i]) ELSE 0

\* the requested duration is longer than the video
RequestedExceedsVideo ==
    video_duration.num * requested.den < requested.num * video_duration.den

RequestedFrames == (requested.num * fps) \div requested.den
AvailableFrames == (video_duration.num * fps) \div video_duration.den

\* C1: the selected start index has a window sum at least that of every valid
\* start index in [0, N - L], the last one included.
C1_BestWindowOptimal ==
    (WindowProduced /\ 1 <= highlight_frames /\ highlight_frames <= Len(frame_scores))
        => \A i \in ValidStarts :
              WindowSum(frame_scores, i, highlight_frames)
                  <= WindowSum(frame_scores, start_frame, highlight_frames)

\* C2: when the window length equals the number of scored frames, selection
\* returns start index 0 and does not fail.
C2_FullLengthStartsAtZero ==
    (LengthChosen /\ pc \in {"write", "done"} /\ highlight_frames = total_frames)
        => (start_frame = 0 /\ result # ArgmaxError)

\* C3: a produced window has length highlight_frames, and highlight_frames is
\* min(int(requested * fps), total_frames), never above total_frames.
C3_WindowLength ==
    /\ LengthChosen =>
          /\ highlight_frames = Min(RequestedFrames, AvailableFrames)
          /\ highlight_frames <= total_frames
    /\ WindowProduced => end_frame - start_frame = highlight_frames

C3_Witness ==
    /\ pc = "write"
    /\ end_frame - start_frame = highlight_frames
    /\ highlight_frames >= 1
    /\ RequestedFrames < total_frames

\* C4: a requested duration above the video duration is replaced by the video
\* duration with a warning emitted before audio analysis, decoding or selection
\* start; otherwise no warning is ever emitted and the duration is unchanged.
C4_ClampWarning ==
    /\ (audio_file # "none" \/ cap # "none" \/ frames # <<>> \/ WindowProduced) => PastClamp
    /\ PastClamp =>
          IF RequestedExceedsVideo
          THEN /\ Len(warnings) >= 1
               /\ highlight_duration = video_duration
               /\ LengthChosen => highlight_frames = Len(frame_scores)
          ELSE /\ warnings = <<>>
               /\ highlight_duration = requested

C4_Witness ==
    /\ pc = "audio"
    /\ audio_file = "none"
    /\ RequestedExceedsVideo
    /\ Len(warnings) >= 1
    /\ highlight_duration = video_duration

\* C5: with a requested duration above the video duration and both signals
\* non-empty, the call selects start index 0 and returns; the adjustment raises
\* nothing.
C5_AdjustmentNotFatal ==
    (pc = "done" /\ LengthChosen /\ RequestedExceedsVideo)
        => (start_frame = 0 /\ result \in {"returned", "write error"})

\* C6: when several valid start indices share the maximal window sum, the
\* lowest of them is the one selected.
C6_LowestIndexTieBreak ==
    (WindowProduced /\ Cardinality(BestStarts) >= 2)
        => (start_frame \in BestStarts /\ \A i \in BestStarts : start_frame <= i)

C6_Witness ==
    /\ pc = "write"
    /\ Cardinality(BestStarts \cap Candidates(Len(frame_scores), highlight_frames)) >= 2
    /\ \A i \in BestStarts : start_frame <= i
    /\ WindowSum(frame_scores, start_frame, highlight_frames) > 0

\* C7: the audio part of every frame score is the number of non-silent frame
\* ranges covering that index (k ranges give k), the rest being the difference
\* magnitude added at that index.
C7_AdditiveAudio ==
    ScoresBuilt =>
        \A i \in 0..(total_frames - 1) :
            frame_scores[i + 1] =
                Coverage(i) + (IF i < Len(frame_diffs) THEN frame_diffs[i + 1] ELSE 0)

C7_Witness ==
    /\ ScoresBuilt
    /\ \E i \in 0..(total_frames - 1) :
          /\ Coverage(i) >= 2
          /\ frame_scores[i + 1] >= 2
          /\ \E j \in 0..(total_frames - 1) : Coverage(j) = 1

\* C8: index 0 receives no difference magnitude, and every index i >= 1
\* receives the magnitude between frame i and frame i - 1.
C8_DiffAttributedToLaterFrame ==
    ScoresBuilt =>
        \A i \in 0..(total_frames - 1) :
            frame_scores[i + 1] - Coverage(i) = Magnitude(i)

\* C9: the score array has exactly total_frames entries, building it raises
\* nothing, and the parts of ranges and the difference indices outside [0, N)
\* contribute nothing.
C9_ScoreArraySize ==
    /\ pc = "adjust" => result = "none"
    /\ ScoresBuilt =>
          /\ Len(frame_scores) = total_frames
          /\ SeqSum(frame_scores) =
                SeqSum([i \in 1..total_frames |-> Coverage(i - 1)])
                    + SeqSum([i \in 1..Min(total_frames, Len(frames) - 1) |->
                                 Abs(frames[i + 1] - frames[i])])

C9_Witness ==
    /\ ScoresBuilt
    /\ Len(frame_scores) = total_frames
    /\ Len(frames) - 1 > total_frames
    /\ \E k \in 1..Len(nonsilent_ranges_frames) :
          /\ nonsilent_ranges_frames[k][1] < total_frames
          /\ nonsilent_ranges_frames[k][2] > total_frames

\* C10: a produced window lies within the scored frames:
\* 0 <= start_frame and end_frame <= total_frames.
C10_WindowBounds ==
    WindowProduced => (0 <= start_frame /\ end_frame <= total_frames)

C10_Witness ==
    /\ pc = "write"
    /\ start_frame > 0
    /\ end_frame <= total_frames

NoAudioError == "ValueError: No significant audio activity"
NoSceneError == "ValueError: No significant scene changes"
CaptureError == "ValueError: Unable to open video file"

\* detect_nonsilent ran and returned no interval
DetectorReturnedNone ==
    audio_file # "none" /\ nonsilent_ranges = <<>> /\ result # "audio error"

\* the video holds at least two frames, so it has a difference magnitude
\* between neighbouring frames: its frame-difference signal is not empty
HasFrameDifferences == ToFrames(video_duration, IntFps(video_fps)) >= 2

\* C11: when the detector returns zero non-silent intervals but the
\* frame-difference signal of the video is non-empty, the call raises no error
\* for the missing audio activity: the pipeline goes on with the difference
\* magnitudes alone.
C11_SilentAudioNotFatal ==
    (DetectorReturnedNone /\ HasFrameDifferences) => result # NoAudioError

\* C12: with no non-silent interval and no positive difference magnitude the
\* call ends with an error, and no output clip is written or returned.
C12_NoSignalFails ==
    /\ (DetectorReturnedNone /\ pc = "done" /\ \A j \in 1..Len(frame_diffs) : frame_diffs[j] = 0)
          => (result \notin {"none", "returned"} /\ ~output_file /\ returned_value = <<>>)
    /\ (output_file \/ result = "returned") => nonsilent_ranges # <<>>

C12_Witness ==
    /\ DetectorReturnedNone
    /\ pc = "done"
    /\ frame_diffs = <<>>
    /\ result \notin {"none", "returned"}
    /\ ~output_file
    /\ returned_value = <<>>

\* C13: a path that is no file, a clip that cannot be opened and a capture that
\* cannot be opened each end the call with an error; no output clip is written
\* and no frame score is computed.
C13_SourceUnavailable ==
    /\ video = "missing" => (pc = "done" /\ result = "FileNotFoundError")
    /\ video = "unreadable" =>
          (pc = "done" /\ result = "ValueError: Could not process video file")
    /\ cap = "unopened" => (pc = "done" /\ result = CaptureError)
    /\ (video \in {"missing", "unreadable"} \/ cap = "unopened") =>
          /\ ~output_file
          /\ returned_value = <<>>
          /\ frames = <<>>
          /\ frame_scores = <<>>
          /\ start_frame = None

C13_Witness ==
    /\ cap = "unopened"
    /\ pc = "done"
    /\ result = CaptureError
    /\ frame_scores = <<>>
    /\ ~output_file

\* the errors of the audio-analysis and frame-decoding stages
StageFailures == {"audio error", NoAudioError, CaptureError, NoSceneError}

\* C14: once the audio-analysis or the frame-decoding stage has failed, no
\* window is selected and no clip written; selection and writing are only
\* reached with the capture released and both signals complete.
C14_FailureOrdering ==
    /\ result \in StageFailures =>
          /\ pc = "done"
          /\ highlight_frames = None
          /\ start_frame = None
          /\ ~output_file
    /\ (pc \in {"select", "write"} \/ WindowProduced \/ output_file) =>
          /\ cap = "released"
          /\ nonsilent_ranges # <<>>
          /\ frame_diffs # <<>>
          /\ Len(frame_scores) = total_frames

C14_Witness ==
    /\ pc = "done"
    /\ result = NoSceneError
    /\ cap = "released"
    /\ start_frame = None
    /\ ~output_file

\* C15: when the call has ended, by return or by any error, the temporary WAV
\* is deleted, the capture released and the opened clip closed.
C15_ResourcesReleased ==
    pc = "done" => (audio_file # "exists" /\ cap # "open" /\ video # "open")

\* C16 (as claimed): a successful call returns the duration used next to the
\* output path and, when the duration was adjusted, the warning as well.
C16_ReturnsDurationAndWarning ==
    result = "returned" =>
        /\ Len(returned_value) >= 2
        /\ returned_value[2] = highlight_duration
        /\ warnings # <<>> => Len(returned_value) >= 3

\* C16 (amended): a successful call returns the output clip path and nothing
\* else; an adjustment of the duration is reported by st.warning when made.
C16_ReturnsPathOnly ==
    /\ result = "returned" => (returned_value = <<"highlight.mp4">> /\ output_file)
    /\ result # "returned" => returned_value = <<>>
    /\ (PastClamp /\ highlight_duration # requested) => warnings # <<>>

C16_Witness ==
    /\ pc = "done"
    /\ result = "returned"
    /\ returned_value = <<"highlight.mp4">>
    /\ warnings = <<>>

\* C20: while decoding, k >= 1 frames have produced exactly k - 1 magnitudes,
\* one for each frame after the first, none of them negative.
C20_DiffProducer ==
    pc = "read" =>
        /\ Len(frame_diffs) = (IF frames = <<>> THEN 0 ELSE Len(frames) - 1)
        /\ \A j \in 1..Len(frame_diffs) :
              /\ frame_diffs[j] >= 0
              /\ frame_diffs[j] \in {frames[j + 1] - frames[j], frames[j] - frames[j + 1]}

C20_Witness ==
    /\ pc = "read"
    /\ Len(frames) >= 3
    /\ Len(frame_diffs) = Len(frames) - 1
    /\ \E j \in 1..Len(frame_diffs) : frame_diffs[j] > 0

\* C18: the returned list is an order-preserving sub-list of the input that
\* keeps the first readable file, and any two adjacent files in it have
\* durations that differ by more than min_duration.
C18_AdjacentKeptDiffer ==
    rr_pc = "returned" =>
        /\ \A k \in 1..(Len(filtered_paths) - 1) : filtered_paths[k] < filtered_paths[k + 1]
        /\ \A k \in 1..Len(filtered_paths) :
              /\ filtered_paths[k] \in 1..Len(video_paths)
              /\ video_paths[filtered_paths[k]].readable
        /\ \A i \in 1..Len(video_paths) :
              (video_paths[i].readable /\ \A j \in 1..(i - 1) : ~video_paths[j].readable)
                  => (filtered_paths # <<>> /\ filtered_paths[1] = i)
        /\ \A k \in 1..(Len(filtered_paths) - 1) :
              Abs(video_paths[filtered_paths[k + 1]].duration
                    - video_paths[filtered_paths[k]].duration) > 4

\* C19: an upload of any format the uploader lists (MP4, MOV, AVI, MKV, WebM)
\* passes the format validation and reaches the step where its temporary copy
\* is written and the 'Generate Subtitles' button is offered; validation stops
\* the run only for formats outside that list.
C19_ListedFormatsPass ==
    /\ sub_pc = "stopped" => uploaded_file.format \notin ListedFormats
    /\ (uploaded_file.format \in ListedFormats /\ sub_pc = "done")
          => (tfile = "removed" /\ button_offered)

(* ------- show_sceneoptimizer, process_video (sceneoptimizer.py) -------- *)
MaxScenes == 2           \* scenes detect_scenes returns
MaxRuns == 2             \* 'Process Videos' clicks in one working directory

\* x occurs in the sequence s
InSeq(x, s) == \E i \in 1..Len(s) : s[i] = x

\* a scene: whether its clip has an audio track (line 38) and what
\* is_scene_silent returns for the extracted audio
Scene(audio, silent) == [audio |-> audio, silent |-> silent]
Scenes == {Scene(TRUE, TRUE), Scene(TRUE, FALSE), Scene(FALSE, FALSE)}
SceneLists == UNION {[1..n -> Scenes] : n \in 0..MaxScenes}

NoRelevantScenes == "No relevant scenes found. No output video generated."
ProcessingComplete == "Processing complete! Download your video below."

\* temp_scene_<i>.wav as a record of temp_wavs
Wav(i, silent) == [scene |-> i, silent |-> silent]

\* line 92: extract_audio writes temp_scene_<i>.wav when the clip has an audio
\* track, and writes nothing when it has none
ExtractAudio(wavs, i, scene) ==
    IF scene.audio THEN {w \in wavs : w.scene # i} \cup {Wav(i, scene.silent)}
    ELSE wavs

\* os.path.exists(scene_audio_path) and not is_scene_silent(...)
IsKept(wavs, i) == \E w \in wavs : w.scene = i /\ ~w.silent

InitScene ==
    /\ IdleOutsideScene
    /\ sc_pc = "ready"
    /\ sc_run = 0
    /\ scenes = <<>>
    /\ sc_index = 0
    /\ processed_clips = <<>>
    /\ processed_video = 0
    /\ sc_messages = <<>>
    /\ sc_displayed = None
    /\ sc_error = "none"
    /\ temp_wavs = {}

\* lines 131-150, 83-86: the button is clicked, the uploads are saved, filtered
\* and concatenated, and the scenes are detected; any of these calls may raise
SceneClick ==
    /\ sc_pc = "ready"
    /\ sc_run < MaxRuns
    /\ sc_run' = sc_run + 1
    /\ sc_index' = 0
    /\ processed_clips' = <<>>
    /\ sc_messages' = <<>>
    /\ sc_displayed' = None
    /\ \/ /\ scenes' \in SceneLists
          /\ sc_error' = "none"
          /\ sc_pc' = "loop"
       \/ /\ scenes' = <<>>
          /\ sc_error' = "Exception"
          /\ sc_pc' = "cleanup"
    /\ UNCHANGED <<processed_video, temp_wavs>>
    /\ UNCHANGED outside_scene

\* lines 88-97: one scene of the for loop; subclip, write_audiofile or
\* librosa.load may raise, which leaves the loop and the try block of line 148
\* with the WAV written so far still on disk
SceneIterate ==
    /\ sc_pc = "loop"
    /\ sc_index < Len(scenes)
    /\ LET i == sc_index + 1
           written == ExtractAudio(temp_wavs, i, scenes[i])
       IN  \/ /\ sc_index' = i
              /\ processed_clips' = IF IsKept(written, i)
                                    THEN Append(processed_clips, i)
                                    ELSE processed_clips
              /\ temp_wavs' = {w \in written : w.scene # i}
              /\ UNCHANGED <<sc_pc, sc_error>>
           \/ /\ sc_pc' = "cleanup"
              /\ sc_error' = "Exception"
              /\ temp_wavs' \in {temp_wavs, written}
              /\ UNCHANGED <<sc_index, processed_clips>>
    /\ UNCHANGED <<sc_run, scenes, processed_video, sc_messages, sc_displayed>>
    /\ UNCHANGED outside_scene

\* lines 99-106: the kept scenes are written, or st.error reports there are
\* none.  concatenate_videoclips, write_videofile, final_clip.close() or the
\* video_clip.close() of the finally block may raise, before or after
\* processed_video.mp4 was written
SceneWrite ==
    /\ sc_pc = "loop"
    /\ sc_index = Len(scenes)
    /\ IF processed_clips # <<>> THEN
            /\ UNCHANGED sc_messages
            /\ \/ /\ processed_video' = sc_run
                  /\ sc_pc' = "report"
                  /\ UNCHANGED sc_error
               \/ /\ processed_video' \in {processed_video, sc_run}
                  /\ sc_pc' = "cleanup"
                  /\ sc_error' = "Exception"
       ELSE
            /\ sc_messages' = Append(sc_messages, NoRelevantScenes)
            /\ UNCHANGED processed_video
            /\ \/ /\ sc_pc' = "report"
                  /\ UNCHANGED sc_error
               \/ /\ sc_pc' = "cleanup"
                  /\ sc_error' = "Exception"
    /\ UNCHANGED <<sc_run, scenes, sc_index, processed_clips, sc_displayed, temp_wavs>>
    /\ UNCHANGED outside_scene

\* lines 156-157: st.success, then st.video of processed_video.mp4, which
\* raises when the file does not exist
SceneReport ==
    /\ sc_pc = "report"
    /\ sc_messages' = Append(sc_messages, ProcessingComplete)
    /\ IF processed_video = 0 THEN
            /\ sc_error' = "MediaFileStorageError"
            /\ UNCHANGED sc_displayed
       ELSE
            /\ sc_displayed' = processed_video
            /\ UNCHANGED sc_error
    /\ sc_pc' = "cleanup"
    /\ UNCHANGED <<sc_run, scenes, sc_index, processed_clips, processed_video, temp_wavs>>
    /\ UNCHANGED outside_scene

\* lines 158-170: the saved uploads and the concatenated video are removed;
\* processed_video.mp4 stays
SceneCleanup ==
    /\ sc_pc = "cleanup"
    /\ sc_pc' = "ready"
    /\ UNCHANGED <<sc_run, scenes, sc_index, processed_clips, processed_video,
                   sc_messages, sc_displayed, sc_error, temp_wavs>>
    /\ UNCHANGED outside_scene

NextScene ==
    \/ SceneClick
    \/ SceneIterate
    \/ SceneWrite
    \/ SceneReport
    \/ SceneCleanup

SpecScene == InitScene /\ [][NextScene]_vars

\* process_video has run to its end in this run and kept no scene
NoSceneKept ==
    /\ sc_pc \in {"report", "cleanup", "ready"}
    /\ sc_run > 0
    /\ sc_error # "Exception"
    /\ sc_index = Len(scenes)
    /\ processed_clips = <<>>

\* C21: when process_video keeps no scene it writes no output video, and the
\* screen then neither reports 'Processing complete' nor displays
\* processed_video.mp4, whatever the earlier runs did.
C21_NoKeptSceneShowsNothing ==
    NoSceneKept =>
        /\ processed_video # sc_run
        /\ ~InSeq(ProcessingComplete, sc_messages)
        /\ sc_displayed = None

(* -------------------- generate_highlight_reel (emotion.py) ------------- *)
\* Times are whole numbers of quarter seconds: with frames at whole seconds
\* and a whole-second clip.duration, every value lines 74-97 compute is one.
MaxReelSeconds == 10     \* clip.duration is 1 .. MaxReelSeconds seconds
MaxReelFps == 2          \* clip.fps is 1 .. MaxReelFps
MaxMoments == 2          \* key moments passed in

Quarters == 4            \* quarter seconds in a second
HalfWindow == 10         \* 2.5 seconds
MinClip == 20            \* 5 seconds

Max(a, b) == IF a > b THEN a ELSE b

\* moment["frame"] / fps, in quarter seconds: exact for fps 1 and 2
MomentTime(frame, f) == (Quarters * frame) \div f

\* tuple comparison of Python: (a1, a2) <= (b1, b2)
PairLeq(a, b) == a[1] < b[1] \/ (a[1] = b[1] /\ a[2] <= b[2])

RECURSIVE Insert(_, _)
Insert(x, s) ==
    IF s = <<>> THEN <<x>>
    ELSE IF PairLeq(x, Head(s)) THEN <<x>> \o s
    ELSE <<Head(s)>> \o Insert(x, Tail(s))

\* sorted(highlight_times)
RECURSIVE Sorted(_)
Sorted(s) == IF s = <<>> THEN <<>> ELSE Insert(Head(s), Sorted(Tail(s)))

\* lines 72-76
RECURSIVE CollectTimes(_, _, _)
CollectTimes(moments, f, duration) ==
    IF moments = <<>> THEN <<>>
    ELSE LET moment == Head(moments)
             start_time == Max(MomentTime(moment.frame, f) - HalfWindow, 0)
             end_time == Min(MomentTime(moment.frame, f) + HalfWindow, duration)
         IN  (IF moment.match THEN <<(<<start_time, end_time>>)>> ELSE <<>>)
                 \o CollectTimes(Tail(moments), f, duration)

\* lines 79-84, applied to the sorted intervals with the merged ones so far
RECURSIVE MergeTimes(_, _)
MergeTimes(sorted, merged) ==
    IF sorted = <<>> THEN merged
    ELSE LET start == Head(sorted)[1]
             end == Head(sorted)[2]
             n == Len(merged)
         IN  IF merged # <<>> /\ start <= merged[n][2]
             THEN MergeTimes(Tail(sorted),
                             [merged EXCEPT ![n] = <<merged[n][1], Max(merged[n][2], end)>>])
             ELSE MergeTimes(Tail(sorted), Append(merged, <<start, end>>))

\* lines 94-98: the sub-clip cut for the merged interval (start, end)
PadTo5(start, end, duration) ==
    IF end - start < MinClip
    THEN LET padding == (MinClip - (end - start)) \div 2
         IN  <<Max(start - padding, 0), Min(end + padding, duration)>>
    ELSE <<start, end>>

\* the key moments the caller passes (line 183 hands over the list kept in the
\* session): sampled by analyze_footage in frame order, each matching the
\* selected emotions or not. The list may stem from another video than the
\* one cut now, so a frame may lie inside the clip or beyond its end.
MomentLists ==
    {ms \in UNION {[1..n -> [frame : 1..(MaxReelFps * MaxReelSeconds), match : BOOLEAN]] :
                      n \in 0..MaxMoments} :
        \A k \in 1..(Len(ms) - 1) : ms[k].frame < ms[k + 1].frame}

InitReel ==
    /\ IdleOutsideReel
    /\ reel_pc = "collect"
    /\ clip_fps \in 1..MaxReelFps
    /\ clip_duration \in {Quarters * seconds : seconds \in 1..MaxReelSeconds}
    /\ key_moments \in MomentLists
    /\ highlight_times = <<>>
    /\ merged_times = <<>>
    /\ reel_index = 0
    /\ highlight_clips = <<>>
    /\ reel_result = "none"

\* lines 67-76; lines 106-108: when VideoFileClip or reading a moment raises,
\* the handler logs the exception and the function returns None
ReelCollect ==
    /\ reel_pc = "collect"
    /\ \/ /\ highlight_times' = CollectTimes(key_moments, clip_fps, clip_duration)
          /\ reel_pc' = "merge"
          /\ UNCHANGED reel_result
       \/ /\ reel_pc' = "done"
          /\ reel_result' = "None"
          /\ UNCHANGED highlight_times
    /\ UNCHANGED <<clip_duration, clip_fps, key_moments, merged_times, reel_index,
                   highlight_clips>>
    /\ UNCHANGED outside_reel

\* lines 79-89
ReelMerge ==
    /\ reel_pc = "merge"
    /\ merged_times' = MergeTimes(Sorted(highlight_times), <<>>)
    /\ IF merged_times' = <<>>
       THEN reel_pc' = "done" /\ reel_result' = "None"
       ELSE reel_pc' = "cut" /\ UNCHANGED reel_result
    /\ UNCHANGED <<clip_duration, clip_fps, key_moments, highlight_times, reel_index,
                   highlight_clips>>
    /\ UNCHANGED outside_reel

\* lines 92-98: one merged interval; lines 106-108: when clip.subclip raises,
\* the function returns None
ReelCut ==
    /\ reel_pc = "cut"
    /\ reel_index < Len(merged_times)
    /\ \/ /\ reel_index' = reel_index + 1
          /\ highlight_clips' =
                Append(highlight_clips,
                       PadTo5(merged_times[reel_index + 1][1],
                              merged_times[reel_index + 1][2], clip_duration))
          /\ UNCHANGED <<reel_pc, reel_result>>
       \/ /\ reel_pc' = "done"
          /\ reel_result' = "None"
          /\ UNCHANGED <<reel_index, highlight_clips>>
    /\ UNCHANGED <<clip_duration, clip_fps, key_moments, highlight_times, merged_times>>
    /\ UNCHANGED outside_reel

\* lines 101-104; lines 106-108: when concatenate_videoclips or
\* write_videofile raises, the function returns None
ReelWrite ==
    /\ reel_pc = "cut"
    /\ reel_index = Len(merged_times)
    /\ reel_pc' = "done"
    /\ reel_result' \in {"output_path", "None"}
    /\ UNCHANGED <<clip_duration, clip_fps, key_moments, highlight_times, merged_times,
                   reel_index, highlight_clips>>
    /\ UNCHANGED outside_reel

NextReel ==
    \/ ReelCollect
    \/ ReelMerge
    \/ ReelCut
    \/ ReelWrite

SpecReel == InitReel /\ [][NextReel]_vars

\* C22: in a video of at least 5 seconds every sub-clip appended to
\* highlight_clips lasts at least 5 seconds, wherever the key moment lies.
C22_MinClipLength ==
    clip_duration >= 20 =>
        \A k \in 1..Len(highlight_clips) :
            highlight_clips[k][2] - highlight_clips[k][1] >= 20

\* lines 79-84 have run
Merged == reel_pc \in {"cut", "done"}

\* the quarter-second instants the intervals of s cover
Covered(s) ==
    {u \in 0..clip_duration : \E k \in 1..Len(s) : s[k][1] <= u /\ u <= s[k][2]}

\* C23: merged_times is sorted by start, each interval starts strictly after
\* the previous one ends, every interval lies within [0, clip.duration], the
\* union of merged_times equals the union of the input intervals, and the
\* sub-clips cut after the 5-second padding do not overlap one another.
C23_MergedDisjointClips ==
    Merged =>
        /\ \A k \in 1..(Len(merged_times) - 1) :
              merged_times[k][2] < merged_times[k + 1][1]
        /\ \A k \in 1..Len(merged_times) :
              /\ 0 <= merged_times[k][1]
              /\ merged_times[k][1] <= merged_times[k][2]
              /\ merged_times[k][2] <= clip_duration
        /\ Covered(merged_times) = Covered(highlight_times)
        /\ \A i, j \in 1..Len(highlight_clips) :
              i < j => highlight_clips[i][2] <= highlight_clips[j][1]

(* ------------- show_emotion_based_highlight_reel (emotion.py) ---------- *)
MaxUploads == 3          \* different uploads made in one session

\* the result of analyze_footage on upload u: key moments found, or []
KeyMoments(u, found) == [upload |-> u, found |-> found]

NoEmotions == "No emotions detected. Please try with other videos."
SelectOne == "Please select at least one emotion."
ReelCreated == "Highlight Reel Created!"
NoMatch == "No scenes match your selected emotions."

InitEmotion ==
    /\ IdleOutsideEmotion
    /\ em_pc = "session"
    /\ uploaded_videos = 0
    /\ session_key_moments = NoKey
    /\ offered_moments = NoKey
    /\ reel_moments = NoKey
    /\ reel_video = 0
    /\ em_message = "none"

\* a run of the script with no button clicked, the upload changed or the
\* same as in the run before: lines 114-137, 160-173, 193-196; step 2 is
\* derived again from the key moments of the session
EmotionUpload ==
    /\ em_pc = "session"
    /\ \E u \in 0..MaxUploads :
          /\ uploaded_videos' = u
          /\ offered_moments' = IF u # 0 THEN session_key_moments ELSE NoKey
    /\ em_message' = "none"
    /\ UNCHANGED <<em_pc, session_key_moments, reel_moments, reel_video>>
    /\ UNCHANGED outside_emotion

\* a run with 'Start Emotion Analysis' clicked: lines 139-173
EmotionStartAnalysis ==
    /\ em_pc = "session"
    /\ uploaded_videos # 0
    /\ \E found \in BOOLEAN :
          session_key_moments' =
              IF session_key_moments = NoKey
              THEN KeyMoments(uploaded_videos, found)
              ELSE session_key_moments
    /\ IF ~session_key_moments'.found
       THEN em_message' = NoEmotions /\ offered_moments' = NoKey
       ELSE em_message' = "none" /\ offered_moments' = session_key_moments'
    /\ UNCHANGED <<em_pc, uploaded_videos, reel_moments, reel_video>>
    /\ UNCHANGED outside_emotion

\* a run with 'Generate Highlight Reel' clicked: lines 160-191
EmotionGenerate ==
    /\ em_pc = "session"
    /\ uploaded_videos # 0
    /\ offered_moments # NoKey
    /\ offered_moments' = session_key_moments
    /\ \E selected \in BOOLEAN, result_path \in BOOLEAN :
          IF ~(selected /\ session_key_moments.found) THEN
              /\ em_message' = SelectOne
              /\ UNCHANGED <<reel_moments, reel_video>>
          ELSE
              /\ reel_moments' = session_key_moments
              /\ reel_video' = uploaded_videos
              /\ em_message' = IF result_path THEN ReelCreated ELSE NoMatch
    /\ UNCHANGED <<em_pc, uploaded_videos, session_key_moments>>
    /\ UNCHANGED outside_emotion

NextEmotion ==
    \/ EmotionUpload
    \/ EmotionStartAnalysis
    \/ EmotionGenerate

SpecEmotion == InitEmotion /\ [][NextEmotion]_vars

\* C24: the key moments offered in step 2 and those a reel is built from are
\* the result of analysing the currently uploaded videos; moments computed
\* for an earlier upload, an empty result included, are never reused.
C24_MomentsOfCurrentUpload ==
    /\ offered_moments # NoKey => offered_moments.upload = uploaded_videos
    /\ (session_key_moments # NoKey /\ uploaded_videos # 0 /\ em_message = NoEmotions)
          => session_key_moments.upload = uploaded_videos
    /\ reel_moments # NoKey => reel_moments.upload = reel_video

(* ----------------------- show_trim_video (trim_video.py) --------------- *)
MaxTrimSeconds == 4      \* int(duration) is 1 .. MaxTrimSeconds

TrimSuccess == "Video trimmed successfully!"
TrimError == "End time must be greater than start time!"

\* start_time < end_time
MayTrim(start, end) == start < end

InitTrim ==
    /\ IdleOutsideTrim
    /\ trim_pc = "upload"
    /\ trim_upload \in BOOLEAN
    /\ trim_tfile = "none"
    /\ trim_video = "none"
    /\ trim_duration = 0
    /\ trim_start_time = 0
    /\ trim_end_time = 0
    /\ trim_button = FALSE
    /\ trimmed = FALSE
    /\ trim_output = "none"
    /\ trim_message = "none"

\* line 11 with no upload: the run ends
TrimNoUpload ==
    /\ trim_pc = "upload"
    /\ ~trim_upload
    /\ trim_pc' = "done"
    /\ UNCHANGED <<trim_upload, trim_tfile, trim_video, trim_duration, trim_start_time,
                   trim_end_time, trim_button, trimmed, trim_output, trim_message>>
    /\ UNCHANGED outside_trim

\* lines 11-21: the temporary copy is written and the clip is opened, or
\* VideoFileClip raises and the run ends there
TrimSave ==
    /\ trim_pc = "upload"
    /\ trim_upload
    /\ trim_tfile' = "exists"
    /\ \/ /\ trim_video' = "open"
          /\ trim_duration' \in 1..MaxTrimSeconds
          /\ trim_pc' = "controls"
          /\ UNCHANGED trim_message
       \/ /\ trim_message' = "OSError"
          /\ trim_pc' = "done"
          /\ UNCHANGED <<trim_video, trim_duration>>
    /\ UNCHANGED <<trim_upload, trim_start_time, trim_end_time, trim_button, trimmed, trim_output>>
    /\ UNCHANGED outside_trim

\* lines 25-28: the two sliders and the button; without a click the run ends
TrimControls ==
    /\ trim_pc = "controls"
    /\ trim_start_time' \in 0..trim_duration
    /\ trim_end_time' \in 0..trim_duration
    /\ trim_button' \in BOOLEAN
    /\ trim_pc' = IF trim_button' THEN "trim" ELSE "done"
    /\ UNCHANGED <<trim_upload, trim_tfile, trim_video, trim_duration, trimmed,
                   trim_output, trim_message>>
    /\ UNCHANGED outside_trim

\* lines 29-52: the trim, its display and the cleanup; write_videofile may raise
TrimVideo ==
    /\ trim_pc = "trim"
    /\ MayTrim(trim_start_time, trim_end_time)
    /\ trimmed' = TRUE
    /\ \/ /\ trim_message' = TrimSuccess
          /\ trim_video' = "closed"
          /\ trim_tfile' = "removed"
          /\ trim_output' = "removed"
       \/ /\ trim_message' = "IOError"
          /\ trim_output' \in {"none", "exists"}
          /\ UNCHANGED <<trim_video, trim_tfile>>
    /\ trim_pc' = "done"
    /\ UNCHANGED <<trim_upload, trim_duration, trim_start_time, trim_end_time, trim_button>>
    /\ UNCHANGED outside_trim

\* lines 54-55
TrimReject ==
    /\ trim_pc = "trim"
    /\ ~MayTrim(trim_start_time, trim_end_time)
    /\ trim_message' = TrimError
    /\ trim_pc' = "done"
    /\ UNCHANGED <<trim_upload, trim_tfile, trim_video, trim_duration, trim_start_time,
                   trim_end_time, trim_button, trimmed, trim_output>>
    /\ UNCHANGED outside_trim

NextTrim ==
    \/ TrimNoUpload
    \/ TrimSave
    \/ TrimControls
    \/ TrimVideo
    \/ TrimReject

SpecTrim == InitTrim /\ [][NextTrim]_vars

\* C25: every run that saved the upload to a temporary file has deleted that
\* file and closed the opened clip when it ends, button pressed or not and
\* start_time < end_time or not; a trim is made only when start_time < end_time.
C25_TempFileLifecycle ==
    /\ (trim_pc = "done" /\ trim_tfile # "none") =>
          (trim_tfile = "removed" /\ trim_video \in {"none", "closed"})
    /\ trimmed => trim_start_time < trim_end_time

(* ------------ show_video_optimizer, optimize_video (optimizer.py) ------ *)
Platforms == {"YouTube", "TikTok", "Instagram"}
OptimizerFormats == {"mp4", "mov", "avi"}

OptimizedMessage == "Video optimized"
OptimizeError == "Error optimizing video"

InitOptimizer ==
    /\ IdleOutsideOptimizer
    /\ opt_pc = "upload"
    /\ opt_upload \in OptimizerFormats \cup {"none"}
    /\ opt_temp_dir = "none"
    /\ opt_input = "none"
    /\ platform = "YouTube"
    /\ opt_button = FALSE
    /\ ffmpeg = "none"
    /\ opt_output = FALSE
    /\ opt_messages = <<>>
    /\ opt_display = "none"
    /\ opt_error = "none"

\* line 53 with no upload: the run ends
OptimizerNoUpload ==
    /\ opt_pc = "upload"
    /\ opt_upload = "none"
    /\ opt_pc' = "done"
    /\ UNCHANGED <<opt_upload, opt_temp_dir, opt_input, platform, opt_button, ffmpeg,
                   opt_output, opt_messages, opt_display, opt_error>>
    /\ UNCHANGED outside_optimizer

\* lines 53-62: temp directory, copy of the upload, platform and button
OptimizerSave ==
    /\ opt_pc = "upload"
    /\ opt_upload # "none"
    /\ opt_temp_dir' = "exists"
    /\ opt_input' = "exists"
    /\ platform' \in Platforms
    /\ opt_button' \in BOOLEAN
    /\ opt_pc' = IF opt_button' THEN "optimize" ELSE "cleanup"
    /\ UNCHANGED <<opt_upload, ffmpeg, opt_output, opt_messages, opt_display, opt_error>>
    /\ UNCHANGED outside_optimizer

\* lines 63-65 and optimize_video: ffmpeg succeeds, exits with an error (with
\* or without a partial output file), or cannot be started at all
OptimizeVideo ==
    /\ opt_pc = "optimize"
    /\ \/ /\ ffmpeg' = "ok"
          /\ opt_output' = TRUE
          /\ opt_messages' = Append(opt_messages, OptimizedMessage)
          /\ opt_pc' = "display"
          /\ UNCHANGED opt_error
       \/ /\ ffmpeg' = "failed"
          /\ opt_output' \in BOOLEAN
          /\ opt_messages' = Append(opt_messages, OptimizeError)
          /\ opt_pc' = "display"
          /\ UNCHANGED opt_error
       \/ /\ ffmpeg' = "missing"
          /\ opt_error' = "FileNotFoundError"
          /\ opt_pc' = "done"
          /\ UNCHANGED <<opt_output, opt_messages>>
    /\ UNCHANGED <<opt_upload, opt_temp_dir, opt_input, platform, opt_button, opt_display>>
    /\ UNCHANGED outside_optimizer

\* lines 67-77: the output file is opened for st.video and the download button
OptimizerDisplay ==
    /\ opt_pc = "display"
    /\ IF opt_output THEN
            /\ opt_display' = "shown"
            /\ opt_pc' = "cleanup"
            /\ UNCHANGED opt_error
       ELSE
            /\ opt_display' = "tried"
            /\ opt_error' = "FileNotFoundError"
            /\ opt_pc' = "done"
    /\ UNCHANGED <<opt_upload, opt_temp_dir, opt_input, platform, opt_button, ffmpeg,
                   opt_output, opt_messages>>
    /\ UNCHANGED outside_optimizer

\* lines 80-81
OptimizerCleanup ==
    /\ opt_pc = "cleanup"
    /\ opt_input' = "removed"
    /\ opt_temp_dir' = "removed"
    /\ opt_output' = FALSE
    /\ opt_pc' = "done"
    /\ UNCHANGED <<opt_upload, platform, opt_button, ffmpeg, opt_messages, opt_display,
                   opt_error>>
    /\ UNCHANGED outside_optimizer

NextOptimizer ==
    \/ OptimizerNoUpload
    \/ OptimizerSave
    \/ OptimizeVideo
    \/ OptimizerDisplay
    \/ OptimizerCleanup

SpecOptimizer == InitOptimizer /\ [][NextOptimizer]_vars

\* C26: when the ffmpeg invocation fails, the screen reports the error, does
\* not try to display or offer the optimized file, and still removes the
\* uploaded temp file and the temp directory before the run ends.
C26_FailurePathCleansUp ==
    (opt_pc = "done" /\ ffmpeg \in {"failed", "missing"}) =>
        /\ opt_display = "none"
        /\ opt_input = "removed"
        /\ opt_temp_dir = "removed"
        /\ ffmpeg = "failed" => InSeq(OptimizeError, opt_messages)

\* C27: process_subtitles runs extract audio, transcribe, write SRT, burn
\* subtitles in that order, each only after the previous succeeded; if a step
\* fails, the audio, the SRT file and the output video are all deleted and the
\* error is re-raised; after a successful run and the cleanup in show_subtitle
\* none of the three files nor the temporary input copy remains.
C27_PipelineTempFiles ==
    /\ sub_pc \in {"transcribe", "srt"} => temp_files = {"audio"}
    /\ sub_pc = "burn" => temp_files = {"audio", "srt"}
    /\ sub_pc = "show" => temp_files = {"audio", "srt", "output"}
    /\ InSeq(ProcessingError, messages) => (temp_files = {} /\ ~InSeq(Success, messages))
    /\ (sub_pc = "done" /\ InSeq(Success, messages)) =>
          (temp_files = {} /\ tfile = "removed")

(* ------------------- process_video (enhance_video.py) ------------------ *)
MaxEnhanceFrames == 2    \* frames the input capture delivers

\* the codecs tried, in order of preference, with their extensions
Codecs == << <<"mp4v", ".mp4">>, <<"XVID", ".avi">>, <<"MJPG", ".avi">>,
             <<"DIVX", ".avi">> >>

\* cv2.VideoWriter(...) for one codec: the writer opens, is created without
\* opening, or the call raises
WriterOutcomes == {"opens", "fails", "raises"}

\* out.isOpened()
IsOpened(ws, o) == o # 0 /\ ws[o] = "open"

\* out.release() when out is not None
Release(ws, o) == IF o = 0 THEN ws ELSE [ws EXCEPT ![o] = "released"]

InitEnhance ==
    /\ IdleOutsideEnhance
    /\ enh_pc = "open"
    /\ vidcap = "none"
    /\ codec_outcomes \in [1..Len(Codecs) -> WriterOutcomes]
    /\ codec_index = 0
    /\ writers = [i \in 1..Len(Codecs) |-> "none"]
    /\ out = 0
    /\ enh_output_path = ".mp4"
    /\ enh_frames \in 0..MaxEnhanceFrames
    /\ frame_count = 0
    /\ enh_result = "none"

\* lines 17-30
EnhanceOpen ==
    /\ enh_pc = "open"
    /\ \/ /\ vidcap' = "open"
          /\ enh_pc' = "codecs"
          /\ UNCHANGED enh_result
       \/ /\ vidcap' = "unopened"
          /\ enh_pc' = "done"
          /\ enh_result' = "ValueError: Could not open video"
    /\ UNCHANGED <<codec_outcomes, codec_index, writers, out, enh_output_path,
                   enh_frames, frame_count>>
    /\ UNCHANGED outside_enhance

\* lines 42-57: one codec of the for loop
EnhanceTryCodec ==
    /\ enh_pc = "codecs"
    /\ codec_index < Len(Codecs)
    /\ LET i == codec_index + 1 IN
        /\ codec_index' = i
        /\ enh_output_path' = Codecs[i][2]
        /\ IF codec_outcomes[i] = "raises" THEN
                /\ writers' = Release(writers, out)
                /\ UNCHANGED <<out, enh_pc>>
           ELSE IF codec_outcomes[i] = "opens" THEN
                /\ writers' = [writers EXCEPT ![i] = "open"]
                /\ out' = i
                /\ enh_pc' = "check"
           ELSE
                /\ writers' = [writers EXCEPT ![i] = "unopened"]
                /\ out' = i
                /\ UNCHANGED enh_pc
    /\ UNCHANGED <<vidcap, codec_outcomes, enh_frames, frame_count, enh_result>>
    /\ UNCHANGED outside_enhance

\* the for loop is exhausted
EnhanceCodecsExhausted ==
    /\ enh_pc = "codecs"
    /\ codec_index = Len(Codecs)
    /\ enh_pc' = "check"
    /\ UNCHANGED <<vidcap, codec_outcomes, codec_index, writers, out, enh_output_path,
                   enh_frames, frame_count, enh_result>>
    /\ UNCHANGED outside_enhance

\* lines 59-60, and lines 118-123 when the ValueError is raised
EnhanceCheckWriter ==
    /\ enh_pc = "check"
    /\ IF out = 0 \/ ~IsOpened(writers, out) THEN
            /\ vidcap' = "released"
            /\ writers' = Release(writers, out)
            /\ enh_result' = "ValueError: Could not initialize any video codec"
            /\ enh_pc' = "done"
       ELSE
            /\ enh_pc' = "frames"
            /\ UNCHANGED <<vidcap, writers, enh_result>>
    /\ UNCHANGED <<codec_outcomes, codec_index, out, enh_output_path, enh_frames,
                   frame_count>>
    /\ UNCHANGED outside_enhance

\* lines 75-106: one frame is read (line 76), enhanced and written, and
\* counted at line 106; or an exception is raised between the read and the
\* count, the frame is consumed uncounted, and lines 118-123 run
EnhanceFrame ==
    /\ enh_pc = "frames"
    /\ enh_frames > 0
    /\ enh_frames' = enh_frames - 1
    /\ \/ /\ frame_count' = frame_count + 1
          /\ UNCHANGED <<vidcap, writers, enh_result, enh_pc>>
       \/ /\ vidcap' = "released"
          /\ writers' = Release(writers, out)
          /\ enh_result' = "Exception"
          /\ enh_pc' = "done"
          /\ UNCHANGED frame_count
    /\ UNCHANGED <<codec_outcomes, codec_index, out, enh_output_path>>
    /\ UNCHANGED outside_enhance

\* lines 76-78 with no frame left, then lines 108-116
EnhanceReturn ==
    /\ enh_pc = "frames"
    /\ enh_frames = 0
    /\ vidcap' = "released"
    /\ writers' = Release(writers, out)
    /\ enh_result' = "returned"
    /\ enh_pc' = "done"
    /\ UNCHANGED <<codec_outcomes, codec_index, out, enh_output_path, enh_frames,
                   frame_count>>
    /\ UNCHANGED outside_enhance

NextEnhance ==
    \/ EnhanceOpen
    \/ EnhanceTryCodec
    \/ EnhanceCodecsExhausted
    \/ EnhanceCheckWriter
    \/ EnhanceFrame
    \/ EnhanceReturn

SpecEnhance == InitEnhance /\ [][NextEnhance]_vars

\* the codecs whose writer opens
Opening == {i \in 1..4 : codec_outcomes[i] = "opens"}

\* C28: the writer used is the first, in the order mp4v, XVID, MJPG, DIVX, that
\* opens, and the returned path has the extension paired with that codec; if
\* none opens a ValueError is raised; on every exit after the input was opened
\* the input capture and every writer created, the ones that failed to open
\* included, have been released.
C28_CodecFallback ==
    /\ enh_result = "returned" =>
          /\ out \in Opening
          /\ \A i \in Opening : out <= i
          /\ enh_output_path = (IF out = 1 THEN ".mp4" ELSE ".avi")
    /\ (enh_pc = "done" /\ vidcap # "unopened" /\ Opening = {}) =>
          enh_result = "ValueError: Could not initialize any video codec"
    /\ (enh_pc = "done" /\ vidcap # "unopened") =>
          /\ vidcap = "released"
          /\ \A i \in 1..4 : writers[i] \in {"none", "released"}

(* ----------------------- transition screen (transition.py) ------------- *)
MaxTransitionVideos == 2 \* uploaded videos
MaxSegmentTimes == 4     \* numbers in the segments field
MaxSegmentTime == 4      \* the numbers are 0 .. MaxSegmentTime
MaxTransitions == 2      \* comma-separated parts of the transitions field

CountError == "Number of transitions must match the number of cuts between segments."
FinalError == "Error processing final video"
FinalSuccess == "Final video processed successfully!"
UploadMore == "Please upload more than one video to process transitions."

\* a clip: the segment it shows and the effect applied to it
Clip(segment, effect) == [segment |-> segment, effect |-> effect]

\* line 79
Subclips(times) == [i \in 1..(Len(times) - 1) |-> Clip(i, "none")]

\* the segments field: ascending numbers, or text float() rejects (no number)
SegmentInputs ==
    {ts \in UNION {[1..n -> 0..MaxSegmentTime] : n \in 0..MaxSegmentTimes} :
        \A k \in 1..(Len(ts) - 1) : ts[k] < ts[k + 1]}

\* "".split(",") is [""]: the split field always has at least one part
TransitionInputs ==
    UNION {[1..n -> {"", "crossfade", "fade", "mirrorx"}] : n \in 1..MaxTransitions}

InitTransition ==
    /\ IdleOutsideTransition
    /\ tr_pc = "upload"
    /\ apply_transition = "unbound"     \* no file defines or imports the name
    /\ video_clips = 0
    /\ segment_times = <<>>
    /\ transition_types = <<>>
    /\ clips = <<>>
    /\ final_clips = <<>>
    /\ final_video = FALSE
    /\ tr_messages = <<>>
    /\ tr_temp_dir = "none"

\* lines 37-64 and 123-124: the uploads are saved and opened, the preview is
\* written and the two text fields are read
TransitionUpload ==
    /\ tr_pc = "upload"
    /\ tr_temp_dir' = "exists"
    /\ video_clips' \in 1..MaxTransitionVideos
    /\ IF video_clips' > 1 THEN
            /\ segment_times' \in SegmentInputs
            /\ transition_types' \in TransitionInputs
            /\ tr_pc' \in {"process", "close"}
            /\ UNCHANGED tr_messages
       ELSE
            /\ tr_messages' = Append(tr_messages, UploadMore)
            /\ tr_pc' = "close"
            /\ UNCHANGED <<segment_times, transition_types>>
    /\ UNCHANGED <<apply_transition, clips, final_clips, final_video>>
    /\ UNCHANGED outside_transition

\* lines 66-111: 'Process Final Video' is clicked
TransitionProcess ==
    /\ tr_pc = "process"
    /\ IF segment_times = <<>> THEN
            \* float("") raises ValueError
            /\ tr_messages' = Append(tr_messages, FinalError)
            /\ UNCHANGED <<clips, final_clips, final_video>>
       ELSE IF Len(transition_types) # Len(segment_times) - 2 THEN
            /\ tr_messages' = tr_messages \o <<CountError, FinalError>>
            /\ UNCHANGED <<clips, final_clips, final_video>>
       ELSE
            /\ clips' = Subclips(segment_times)
            /\ IF Len(clips') > 1 /\ apply_transition = "unbound" THEN
                    \* the loop of line 83 runs: NameError at line 85 in its
                    \* first iteration, final_clips is still [] (line 82)
                    /\ tr_messages' = Append(tr_messages, FinalError)
                    /\ UNCHANGED <<final_clips, final_video>>
               ELSE
                    \* the loop has no iteration: lines 89-108
                    /\ final_clips' = <<clips'[Len(clips')]>>
                    /\ final_video' = TRUE
                    /\ tr_messages' = Append(tr_messages, FinalSuccess)
    /\ tr_pc' = "cleanup"
    /\ UNCHANGED <<apply_transition, video_clips, segment_times, transition_types,
                   tr_temp_dir>>
    /\ UNCHANGED outside_transition

\* lines 113-121
TransitionCleanup ==
    /\ tr_pc = "cleanup"
    /\ tr_temp_dir' = "removed"
    /\ tr_pc' = "close"
    /\ UNCHANGED <<apply_transition, video_clips, segment_times, transition_types,
                   clips, final_clips, final_video, tr_messages>>
    /\ UNCHANGED outside_transition

\* lines 126-128
TransitionClose ==
    /\ tr_pc = "close"
    /\ tr_pc' = "done"
    /\ UNCHANGED <<apply_transition, video_clips, segment_times, transition_types,
                   clips, final_clips, final_video, tr_messages, tr_temp_dir>>
    /\ UNCHANGED outside_transition

NextTransition ==
    \/ TransitionUpload
    \/ TransitionProcess
    \/ TransitionCleanup
    \/ TransitionClose

SpecTransition == InitTransition /\ [][NextTransition]_vars

\* the transitions the user entered: an empty field holds none
EnteredTransitions ==
    IF transition_types = <<"">> THEN 0 ELSE Len(transition_types)

\* 'Process Final Video' was clicked and its handler has finished
Processed == tr_pc \in {"cleanup", "close", "done"} /\ tr_temp_dir = "removed"

\* C29: for k >= 2 ascending segment times and as many transitions as there
\* are cuts between the segments (none for a single segment), pressing
\* 'Process Final Video' writes final_video.mp4 and reports success, not an
\* error.
C29_FinalVideoProduced ==
    (Processed /\ Len(segment_times) >= 2
        /\ EnteredTransitions = Len(segment_times) - 2) =>
        /\ final_video
        /\ InSeq(FinalSuccess, tr_messages)
        /\ ~InSeq(FinalError, tr_messages)

MaxConvertMs == 1500     \* an interval bound is 0 .. MaxConvertMs ms
MaxConvertFps == 30      \* fps is 1 .. MaxConvertFps

InitConvert ==
    /\ IdleOutsideConvert
    /\ conv_pc = "bound"
    /\ conv_ms \in 0..MaxConvertMs
    /\ conv_fps \in 1..MaxConvertFps
    /\ conv_frame = None

\* line 44, one bound of one interval
ConvertBound ==
    /\ conv_pc = "bound"
    /\ conv_frame' = MsToFrame(conv_ms, conv_fps)
    /\ conv_pc' = "converted"
    /\ UNCHANGED <<conv_ms, conv_fps>>
    /\ UNCHANGED outside_convert

NextConvert == ConvertBound

SpecConvert == InitConvert /\ [][NextConvert]_vars

\* C17: every interval bound ms is converted to the nearest frame index,
\* round(ms / 1000 * fps), for every ms >= 0 and every integer fps >= 1.
C17_RoundToNearest ==
    conv_pc = "converted" => conv_frame = MsToFrameRound(conv_ms, conv_fps)

====
